---------------------------- MODULE Spec2Model ----------------------------
(***************************************************************************)
(* RewardSense synthetic data generators: UserProfileGenerator and         *)
(* TransactionGenerator (src/src/data_pipeline/generators).                *)
(*                                                                         *)
(* Units.  Money is held in mills (1/1000 dollar) so that values between   *)
(* two cents exist, as they do for the floats of the source; a budget of   *)
(* a profile row is held in cents (the source rounds it to 2 decimals).    *)
(* Weights are held in percent, seasonal multipliers in tenths, the        *)
(* per-category noise in thousandths, day weights in tenths.               *)
(*                                                                         *)
(* Randomness.  Each generator owns one seeded generator (numpy's          *)
(* default_rng(seed)); it is modelled as a stateful generator whose state  *)
(* is set from the seed at construction and advanced by every draw.  Every *)
(* distribution maps one raw draw to a value of its support.               *)
(*                                                                         *)
(* Catalog.  The configuration catalog is data; the model holds the        *)
(* archetypes and categories named in ARCHETYPE_DISTRIBUTION and           *)
(* SPENDING_CATEGORIES below, with the figures of config.py, in the        *)
(* source's dictionary order.                                              *)
(***************************************************************************)
EXTENDS Integers, Sequences, FiniteSets, TLC

(***************************************************************************)
(* Bounds of the model.                                                    *)
(***************************************************************************)
MaxSeed == 1
MaxUsers == 2
MaxMonths == 2
MaxCalls == 2

Seeds == 0..MaxSeed

(***************************************************************************)
(* Calendar: what datetime, timedelta and datetime.replace compute.        *)
(* A date is <<year, month, day>>.                                         *)
(***************************************************************************)
IsLeap(y) == (y % 4 = 0 /\ y % 100 # 0) \/ y % 400 = 0

MonthLength(y, m) ==
    IF m = 2 THEN (IF IsLeap(y) THEN 29 ELSE 28)
    ELSE IF m \in {4, 6, 9, 11} THEN 30 ELSE 31

DateLT(a, b) ==
    \/ a[1] < b[1]
    \/ a[1] = b[1] /\ a[2] < b[2]
    \/ a[1] = b[1] /\ a[2] = b[2] /\ a[3] < b[3]

DateLE(a, b) == a = b \/ DateLT(a, b)

\* date - timedelta(days=1)
MinusOneDay(dt) ==
    IF dt[3] > 1 THEN <<dt[1], dt[2], dt[3] - 1>>
    ELSE IF dt[2] > 1 THEN <<dt[1], dt[2] - 1, MonthLength(dt[1], dt[2] - 1)>>
    ELSE <<dt[1] - 1, 12, 31>>

\* date + timedelta(days=n), n >= 0
RECURSIVE PlusDays(_, _)
PlusDays(dt, n) ==
    LET left == MonthLength(dt[1], dt[2]) - dt[3]
    IN IF n <= left THEN <<dt[1], dt[2], dt[3] + n>>
       ELSE IF dt[2] = 12 THEN PlusDays(<<dt[1] + 1, 1, 1>>, n - left - 1)
       ELSE PlusDays(<<dt[1], dt[2] + 1, 1>>, n - left - 1)

(***************************************************************************)
(* The seeded generator.  NewRng is default_rng(seed); NextState is the    *)
(* state after one draw and Raw the number that draw returns, in           *)
(* 0..RawRange-1.                                                          *)
(***************************************************************************)
RawRange == 16

NewRng(seed) == (seed * 2053 + 13) % 65536

NextState(s) == (s * 25173 + 13849) % 65536

Raw(s) == (NextState(s) \div 4096) % RawRange

\* The state after k draws.
RECURSIVE Skip(_, _)
Skip(s, k) == IF k = 0 THEN s ELSE Skip(NextState(s), k - 1)

\* rng.uniform(lo, hi): a value of [lo, hi)
Uniform(lo, hi, raw) == lo + ((hi - lo) * raw) \div RawRange

\* rng.choice(list): a uniform element of a non-empty sequence
Choice(list, raw) == list[1 + (raw * Len(list)) \div RawRange]

RECURSIVE SumTo(_, _)
SumTo(w, k) == IF k = 0 THEN 0 ELSE w[k] + SumTo(w, k - 1)

\* rng.choice(list, p=weights/weights.sum()): the inverse of the cumulative
\* distribution at raw/RawRange; only entries of positive weight are drawn.
WeightedIndex(w, raw) ==
    CHOOSE k \in 1..Len(w) :
        /\ SumTo(w, k) * RawRange > raw * SumTo(w, Len(w))
        /\ \A j \in 1..(k - 1) : SumTo(w, j) * RawRange <= raw * SumTo(w, Len(w))

\* rng.poisson(lam): a natural number, here between 0 and 2*lam
Poisson(lam, raw) == (2 * lam * raw) \div (RawRange - 1)

\* rng.normal(mean, std): here between mean - 3 std and mean + 3 std
Normal(mean, std, raw) == mean + (std * (2 * raw - (RawRange - 1))) \div 5

(***************************************************************************)
(* Numbers and formatting.                                                 *)
(***************************************************************************)
Max(a, b) == IF a >= b THEN a ELSE b

Min(a, b) == IF a <= b THEN a ELSE b

\* Python's round(x / y) for x >= 0, y > 0: to the nearest integer, a tie to
\* the even one.
RoundDiv(x, y) ==
    LET q == x \div y
        r == x % y
    IN IF 2 * r < y THEN q
       ELSE IF 2 * r > y THEN q + 1
       ELSE IF q % 2 = 0 THEN q ELSE q + 1

\* round(amt, 2) of an amount in mills: a whole number of cents, in mills.
Round2(mills) == 10 * RoundDiv(mills, 10)

DigitChar == <<"0", "1", "2", "3", "4", "5", "6", "7", "8", "9">>

RECURSIVE Digits(_)
Digits(n) ==
    IF n < 10 THEN <<DigitChar[n + 1]>>
    ELSE Digits(n \div 10) \o <<DigitChar[(n % 10) + 1]>>

RECURSIVE ZeroPad(_, _)
ZeroPad(ds, width) == IF Len(ds) >= width THEN ds ELSE ZeroPad(<<"0">> \o ds, width)

\* f"user_{n:04d}"
\* Fault variant: ids numbered from the loop index instead of index + 1.
UserIdFromZero(n) == <<"user_">> \o ZeroPad(Digits(n - 1), 4)

UserId(n) == <<"user_">> \o ZeroPad(Digits(n), 4)

\* f"txn_{n:07d}"
TxnId(n) == <<"txn_">> \o ZeroPad(Digits(n), 7)

(***************************************************************************)
(* Configuration catalog (config.py).  A dictionary whose iteration order  *)
(* matters is a sequence of <<key, value>> pairs in the source's order.    *)
(***************************************************************************)
Keys(d) == [i \in 1..Len(d) |-> d[i][1]]

Values(d) == [i \in 1..Len(d) |-> d[i][2]]

KeySet(d) == {d[i][1] : i \in 1..Len(d)}

\* d[key], for a key of d
Lookup(d, key) == d[CHOOSE i \in 1..Len(d) : d[i][1] = key][2]

\* d.get(key, default)
Get(d, key, default) == IF key \in KeySet(d) THEN Lookup(d, key) ELSE default

SPENDING_CATEGORIES ==
    << <<"travel",
         [mcc_codes |-> <<3000, 3001, 4511, 4722, 7011, 7512>>,
          merchants |-> <<"Delta Airlines", "United Airlines", "Southwest Airlines",
                          "Marriott", "Hilton", "Airbnb", "Expedia", "Hertz",
                          "Enterprise", "Booking.com">>]>>,
       <<"utilities",
         [mcc_codes |-> <<4900, 4814, 4816>>,
          merchants |-> <<"Electric Company", "Water Utility", "Gas Utility",
                          "Internet Provider", "Phone Bill">>]>>,
       <<"home_improvement",
         [mcc_codes |-> <<5200, 5211, 5231, 5251, 5261>>,
          merchants |-> <<"Home Depot", "Lowe's", "Ace Hardware", "Menards",
                          "True Value">>]>>,
       <<"other",
         [mcc_codes |-> <<5999>>,
          merchants |-> <<"Miscellaneous Store", "Local Shop", "Specialty Retailer",
                          "General Merchandise">>]>> >>

\* monthly_budget_range in cents, category_weights in percent
SPENDING_ARCHETYPES ==
    << [name |-> "budget_conscious",
        monthly_budget_range |-> <<150000, 300000>>,
        category_weights |-> << <<"travel", 2>>, <<"utilities", 15>>,
                                <<"home_improvement", 2>>, <<"other", 8>> >>],
       [name |-> "minimal_user",
        monthly_budget_range |-> <<30000, 80000>>,
        category_weights |-> << <<"travel", 0>>, <<"utilities", 15>>,
                                <<"home_improvement", 0>>, <<"other", 5>> >>] >>

\* relative selection weights, in percent
ARCHETYPE_DISTRIBUTION == << <<"budget_conscious", 20>>, <<"minimal_user", 10>> >>

CARD_PORTFOLIO_TEMPLATES ==
    << <<"starter_cashback", <<"Citi Double Cash", "Chase Freedom Flex">> >>,
       <<"dining_focused", <<"Amex Gold", "Chase Sapphire Preferred",
                             "Capital One SavorOne">> >>,
       <<"travel_focused", <<"Chase Sapphire Reserve", "Amex Platinum",
                             "Capital One Venture X">> >>,
       <<"grocery_focused", <<"Amex Blue Cash Preferred", "Amex Gold">> >>,
       <<"all_rounder", <<"Chase Freedom Unlimited", "Citi Double Cash",
                          "Amex Blue Cash Everyday">> >>,
       <<"premium_stack", <<"Chase Sapphire Reserve", "Amex Gold",
                            "Chase Freedom Flex", "Amex Blue Cash Preferred">> >> >>

REDEMPTION_PREFERENCE_WEIGHTS ==
    << <<"cash_back", 35>>, <<"travel_transfer", 20>>, <<"statement_credit", 20>>,
       <<"gift_cards", 10>>, <<"merchandise", 5>>, <<"travel_portal", 10>> >>

\* seasonal multipliers by month, in tenths
SEASONAL_MULTIPLIERS ==
    << <<"travel", << <<6, 15>>, <<7, 16>>, <<8, 14>>, <<12, 13>> >> >>,
       <<"home_improvement", << <<3, 12>>, <<4, 14>>, <<5, 13>>, <<9, 12>> >> >> >>

DEFAULT_SEASONAL_MULTIPLIER == 10

\* (mean, std) of a transaction amount, in mills
TRANSACTION_AMOUNT_PARAMS ==
    << <<"travel", <<350000, 250000>> >>, <<"utilities", <<120000, 50000>> >>,
       <<"home_improvement", <<85000, 60000>> >>, <<"other", <<40000, 30000>> >> >>

\* 1.50, in mills
MIN_TRANSACTION_AMOUNT == 1500

(***************************************************************************)
(* State.                                                                  *)
(*   pgens          the UserProfileGenerator instances                     *)
(*   profileTables  what their generate() calls returned, in order, each   *)
(*                  with its instance                                      *)
(*   tgens          the TransactionGenerator instances                     *)
(*   returned       what the finished TransactionGenerator.generate calls  *)
(*                  returned, in order, each with its instance and input   *)
(*   pc, frame      the position and the local variables of the running    *)
(*                  TransactionGenerator.generate call                     *)
(***************************************************************************)
VARIABLES pgens, profileTables, tgens, returned, pc, frame,
          config, raised, mappings, disk, dl, clean, scraper

vars == <<pgens, profileTables, tgens, returned, pc, frame,
          config, raised, mappings, disk, dl, clean, scraper>>

\* The catalog as config.py ships it: the module globals the generators
\* import.  `config` holds them as the running program sees them.
ShippedConfig ==
    [SPENDING_ARCHETYPES |-> SPENDING_ARCHETYPES,
     ARCHETYPE_DISTRIBUTION |-> ARCHETYPE_DISTRIBUTION]

(***************************************************************************)
(* UserProfileGenerator (user_profile_generator.py)                        *)
(***************************************************************************)
\* UserProfileGenerator.__init__
NewUserProfileGenerator(num_users, seed) ==
    [num_users |-> num_users, seed |-> seed, rng |-> NewRng(seed)]

\* self._archetype_map = {a.name: a for a in SPENDING_ARCHETYPES}
ArchetypeNames ==
    {config.SPENDING_ARCHETYPES[i].name : i \in 1..Len(config.SPENDING_ARCHETYPES)}

ArchetypeMap(name) ==
    config.SPENDING_ARCHETYPES[CHOOSE i \in 1..Len(config.SPENDING_ARCHETYPES) :
                                   config.SPENDING_ARCHETYPES[i].name = name]

\* self._archetype_map[name]: the archetype, or a KeyError for a name that
\* is not in the map
KeyError == [name |-> "KeyError"]

\* Fault variant: a lookup with a default, _archetype_map.get(name, first).
ArchetypeOfOrFirst(name) ==
    IF name \in ArchetypeNames THEN ArchetypeMap(name)
    ELSE config.SPENDING_ARCHETYPES[1]

ArchetypeOf(name) == IF name \in ArchetypeNames THEN ArchetypeMap(name) ELSE KeyError

\* _assign_archetypes: one batched weighted draw of num_users names
RECURSIVE AssignArchetypes(_, _)
AssignArchetypes(n, s) ==
    IF n = 0 THEN <<>>
    ELSE <<Keys(config.ARCHETYPE_DISTRIBUTION)[
              WeightedIndex(Values(config.ARCHETYPE_DISTRIBUTION), Raw(s))]>>
         \o AssignArchetypes(n - 1, NextState(s))

\* _sample_monthly_budget followed by round(budget, 2) (generate), in cents
\* Fault variant: the range is read from the first archetype of the catalog.
SampleMonthlyBudgetOfFirst(archetype, raw) ==
    Round2(Uniform(10 * SPENDING_ARCHETYPES[1].monthly_budget_range[1],
                   10 * SPENDING_ARCHETYPES[1].monthly_budget_range[2], raw)) \div 10

SampleMonthlyBudget(archetype, raw) ==
    Round2(Uniform(10 * archetype.monthly_budget_range[1],
                   10 * archetype.monthly_budget_range[2], raw)) \div 10

Affinity ==
    << <<"young_professional", <<"starter_cashback", "dining_focused", "all_rounder">> >>,
       <<"suburban_family", <<"grocery_focused", "all_rounder", "starter_cashback">> >>,
       <<"frequent_traveler", <<"travel_focused", "dining_focused", "premium_stack">> >>,
       <<"budget_conscious", <<"starter_cashback", "all_rounder">> >>,
       <<"high_roller", <<"premium_stack", "travel_focused">> >>,
       <<"minimal_user", <<"starter_cashback">> >>,
       <<"category_specialist", <<"grocery_focused", "all_rounder", "dining_focused">> >> >>

\* _assign_card_portfolio
AssignCardPortfolio(archetype_name, raw) ==
    Lookup(CARD_PORTFOLIO_TEMPLATES,
           Choice(Get(Affinity, archetype_name, Keys(CARD_PORTFOLIO_TEMPLATES)), raw))

\* _sample_redemption_preference
SampleRedemptionPreference(raw) ==
    Keys(REDEMPTION_PREFERENCE_WEIGHTS)[
        WeightedIndex(Values(REDEMPTION_PREFERENCE_WEIGHTS), raw)]

AgeAffinities ==
    << <<"young_professional", << <<"18-25", 40>>, <<"26-35", 50>>, <<"36-50", 10>> >> >>,
       <<"suburban_family", << <<"26-35", 30>>, <<"36-50", 50>>, <<"51-65", 20>> >> >>,
       <<"frequent_traveler", << <<"26-35", 30>>, <<"36-50", 40>>, <<"51-65", 30>> >> >>,
       <<"budget_conscious", << <<"18-25", 30>>, <<"26-35", 30>>, <<"36-50", 20>>,
                                <<"51-65", 15>>, <<"65+", 5>> >> >>,
       <<"high_roller", << <<"36-50", 40>>, <<"51-65", 40>>, <<"65+", 20>> >> >>,
       <<"minimal_user", << <<"18-25", 50>>, <<"65+", 30>>, <<"51-65", 20>> >> >>,
       <<"category_specialist", << <<"26-35", 30>>, <<"36-50", 40>>, <<"51-65", 30>> >> >> >>

\* _sample_age_group
SampleAgeGroup(archetype_name, raw) ==
    LET dist == Get(AgeAffinities, archetype_name, << <<"26-35", 50>>, <<"36-50", 50>> >>)
    IN Keys(dist)[WeightedIndex(Values(dist), raw)]

LocAffinities ==
    << <<"young_professional", << <<"urban", 70>>, <<"suburban", 25>>, <<"rural", 5>> >> >>,
       <<"suburban_family", << <<"urban", 10>>, <<"suburban", 75>>, <<"rural", 15>> >> >>,
       <<"frequent_traveler", << <<"urban", 50>>, <<"suburban", 40>>, <<"rural", 10>> >> >>,
       <<"budget_conscious", << <<"urban", 30>>, <<"suburban", 40>>, <<"rural", 30>> >> >>,
       <<"high_roller", << <<"urban", 60>>, <<"suburban", 35>>, <<"rural", 5>> >> >>,
       <<"minimal_user", << <<"urban", 30>>, <<"suburban", 30>>, <<"rural", 40>> >> >>,
       <<"category_specialist", << <<"urban", 30>>, <<"suburban", 50>>, <<"rural", 20>> >> >> >>

\* _sample_location_type
SampleLocationType(archetype_name, raw) ==
    LET dist == Get(LocAffinities, archetype_name,
                    << <<"urban", 40>>, <<"suburban", 40>>, <<"rural", 20>> >>)
    IN Keys(dist)[WeightedIndex(Values(dist), raw)]

\* The row generate() appends for enumerate index i (from 0) and archetype
\* arch_name, with the generator in state s: five draws, in the source's order.
ProfileRow(i, arch_name, s) ==
    [user_id |-> UserId(i + 1),
     archetype |-> arch_name,
     monthly_budget |-> SampleMonthlyBudget(ArchetypeOf(arch_name), Raw(s)),
     cards |-> AssignCardPortfolio(arch_name, Raw(Skip(s, 1))),
     redemption_preference |-> SampleRedemptionPreference(Raw(Skip(s, 2))),
     age_group |-> SampleAgeGroup(arch_name, Raw(Skip(s, 3))),
     location_type |-> SampleLocationType(arch_name, Raw(Skip(s, 4)))]

\* The loop of generate() from index i on: the rows, in index order.
RECURSIVE ProfileRows(_, _, _)
ProfileRows(archetypes, i, s) ==
    IF i >= Len(archetypes) THEN <<>>
    ELSE <<ProfileRow(i, archetypes[i + 1], s)>>
         \o ProfileRows(archetypes, i + 1, Skip(s, 5))

\* UserProfileGenerator.generate on a generator in state s: the table
\* returned and the state the generator is left in.  The loop raises the
\* KeyError of self._archetype_map[arch_name] at the first drawn name that is
\* not in the map, after the rows before it have made their draws.
GenerateProfiles(num_users, s) ==
    LET archetypes == AssignArchetypes(num_users, s)
        unknown == {i \in 1..Len(archetypes) : ArchetypeOf(archetypes[i]) = KeyError}
    IN IF unknown = {}
       THEN [table |-> ProfileRows(archetypes, 0, Skip(s, num_users)),
             rng |-> Skip(s, num_users + 5 * Len(archetypes)),
             error |-> ""]
       ELSE LET first == CHOOSE i \in unknown : \A k \in unknown : i <= k
            IN [table |-> <<>>,
                rng |-> Skip(s, num_users + 5 * (first - 1)),
                error |-> "KeyError"]

(***************************************************************************)
(* TransactionGenerator (transaction_generator.py)                         *)
(***************************************************************************)
\* self.end_date = self.start_date + timedelta(days=history_months * 30)
EndDate(start_date, history_months) == PlusDays(start_date, history_months * 30)

\* TransactionGenerator.__init__ with an explicit start_date
NewTransactionGenerator(seed, history_months, start_date) ==
    [seed |-> seed,
     history_months |-> history_months,
     start_date |-> start_date,
     end_date |-> EndDate(start_date, history_months),
     rng |-> NewRng(seed)]

\* current = self.start_date: where the month loop starts
FirstCurrent(gen) == gen.start_date

\* while current < self.end_date
MonthLoopContinues(current, gen) == DateLT(current, gen.end_date)

\* Fault variant: every month from January to November is given 30 days.
DaysInMonthThirty(current) == IF current[2] < 12 THEN 30 ELSE 31

\* days_in_month, as the loop computes it from current
DaysInMonth(current) ==
    IF current[2] < 12
    THEN MinusOneDay(<<current[1], (current[2] % 12) + 1, 1>>)[3]
    ELSE 31

\* advance to next month
NextCurrent(current) ==
    IF current[2] = 12 THEN <<current[1] + 1, 1, 1>>
    ELSE <<current[1], current[2] + 1, 1>>

\* archetype.category_weights of the user's archetype
\* Fault variant: every user is given the weights of the first archetype of
\* the catalog, whatever archetype the profile names.
CategoryWeightsOfFirst(archetype_name) == SPENDING_ARCHETYPES[1].category_weights

CategoryWeights(archetype_name) == ArchetypeMap(archetype_name).category_weights

\* if base_weight <= 0: continue
SkipsCategory(base_weight) == base_weight <= 0

\* SEASONAL_MULTIPLIERS.get(category, {}).get(month, DEFAULT_SEASONAL_MULTIPLIER)
Seasonal(category, month) ==
    Get(Get(SEASONAL_MULTIPLIERS, category, <<>>), month, DEFAULT_SEASONAL_MULTIPLIER)

\* self._rng.uniform(0.85, 1.15), in thousandths
Noise(raw) == Uniform(850, 1150, raw)

\* cat_budget = user["monthly_budget"] * base_weight * seasonal; cat_budget *= noise
\* (budget in cents, weight in percent, seasonal in tenths, noise in
\* thousandths; the result in mills)
CatBudget(monthly_budget, base_weight, seasonal, noise) ==
    ((((monthly_budget * base_weight) * seasonal) \div 100) * noise) \div 1000

\* est_num = max(1, int(round(monthly_amount / mean_amt)))
EstNum(monthly_amount, mean_amt) == Max(1, RoundDiv(monthly_amount, mean_amt))

\* est_num = max(1, int(self._rng.poisson(est_num)))
DrawnNum(est_num, raw) == Max(1, Poisson(est_num, raw))

\* if monthly_amount < MIN_TRANSACTION_AMOUNT: return []
SplitReturnsNone(monthly_amount) == monthly_amount < MIN_TRANSACTION_AMOUNT

\* Fault variant: the loop runs est_num times whatever remains.
SplitLoopNoBreak(j, est_num, remaining) == j < est_num

\* for j in range(est_num): if remaining < MIN_TRANSACTION_AMOUNT: break
SplitLoopContinues(j, est_num, remaining) ==
    j < est_num /\ ~(remaining < MIN_TRANSACTION_AMOUNT)

\* amt = max(MIN_TRANSACTION_AMOUNT, min(amt, remaining)); amt = round(amt, 2)
\* Fault variant: the amount is capped by the remaining budget but not
\* raised to the minimum.
ClampAmountNoFloor(amt, remaining) == Round2(Min(amt, remaining))

ClampAmount(amt, remaining) == Round2(Max(MIN_TRANSACTION_AMOUNT, Min(amt, remaining)))

WeekendHeavy == {"dining", "entertainment", "online_shopping", "travel"}

WeekdayHeavy == {"utilities", "insurance"}

BillLike == {"utilities", "insurance", "streaming"}

\* Fault variant: the weekday-heavy test is made before the bill-like test.
DayWeightsWeekdayFirst(category, days_in_month) ==
    [d \in 1..days_in_month |->
        IF category \in WeekdayHeavy
        THEN (IF d % 7 \notin {6, 0} THEN 13 ELSE 10)
        ELSE IF category \in BillLike
        THEN (IF d <= 5 \/ (15 <= d /\ d <= 20) THEN 30 ELSE 10)
        ELSE IF category \in WeekendHeavy
        THEN (IF d % 7 \in {6, 0} THEN 18 ELSE 10)
        ELSE 10]

\* The weights of _sample_transaction_day before normalisation, in tenths,
\* for days 1..days_in_month.
DayWeights(category, days_in_month) ==
    [d \in 1..days_in_month |->
        IF category \in BillLike
        THEN (IF d <= 5 \/ (15 <= d /\ d <= 20) THEN 30 ELSE 10)
        ELSE IF category \in WeekendHeavy
        THEN (IF d % 7 \in {6, 0} THEN 18 ELSE 10)
        ELSE IF category \in WeekdayHeavy
        THEN (IF d % 7 \notin {6, 0} THEN 13 ELSE 10)
        ELSE 10]

\* _sample_transaction_day: rng.choice(days, p=weights), days = 1..days_in_month
SampleTransactionDay(category, days_in_month, raw) ==
    WeightedIndex(DayWeights(category, days_in_month), raw)

\* cat_info = SPENDING_CATEGORIES.get(category, SPENDING_CATEGORIES["other"])
\* Fault variant: every category is given the merchants and codes of "other".
CatInfoOfOther(category) == Lookup(SPENDING_CATEGORIES, "other")

CatInfo(category) ==
    Get(SPENDING_CATEGORIES, category, Lookup(SPENDING_CATEGORIES, "other"))

\* mean_amt, std_amt = TRANSACTION_AMOUNT_PARAMS.get(category, (50.0, 25.0))
AmountParams(category) == Get(TRANSACTION_AMOUNT_PARAMS, category, <<50000, 25000>>)

\* card_used = str(self._rng.choice(cards))
\* Fault variant: the card is drawn from one fixed portfolio template instead
\* of the user's own cards.
CardUsedFromTemplate(cards, raw) ==
    Choice(Lookup(CARD_PORTFOLIO_TEMPLATES, "all_rounder"), raw)

CardUsed(cards, raw) == Choice(cards, raw)

\* txn_counter += len(cat_txns)
\* Fault variant: the counter is set to the size of the last batch instead
\* of being advanced by it.
CountedAfterReset(txn_counter, cat_txns) == Len(cat_txns)

CountedAfter(txn_counter, cat_txns) == txn_counter + Len(cat_txns)

\* The transaction one iteration of the loop of _split_into_transactions
\* appends, with the generator in state s: five draws, in the source's order
\* (amount, day, merchant, mcc code, card).
\* Fault variant: the draws are taken further along the stream, by the number
\* of other users in the table.
NewTransactionByTableSize(f, s) ==
    LET t == Skip(s, Len(f.profiles) - 1)
    IN [transaction_id |-> TxnId(f.counter + 1),
        user_id |-> f.user_id,
        date |-> <<f.year, f.month,
                   SampleTransactionDay(f.category, f.days_in_month, Raw(Skip(t, 1)))>>,
        category |-> f.category,
        merchant |-> Choice(CatInfo(f.category).merchants, Raw(Skip(t, 2))),
        mcc_code |-> Choice(CatInfo(f.category).mcc_codes, Raw(Skip(t, 3))),
        amount |-> ClampAmount(Normal(AmountParams(f.category)[1],
                                      AmountParams(f.category)[2], Raw(t)),
                               f.remaining),
        card_used |-> CardUsed(f.cards, Raw(Skip(t, 4)))]

NewTransaction(f, s) ==
    [transaction_id |-> TxnId(f.counter + 1),
     user_id |-> f.user_id,
     date |-> <<f.year, f.month,
                SampleTransactionDay(f.category, f.days_in_month, Raw(Skip(s, 1)))>>,
     category |-> f.category,
     merchant |-> Choice(CatInfo(f.category).merchants, Raw(Skip(s, 2))),
     mcc_code |-> Choice(CatInfo(f.category).mcc_codes, Raw(Skip(s, 3))),
     amount |-> ClampAmount(Normal(AmountParams(f.category)[1],
                                   AmountParams(f.category)[2], Raw(s)),
                            f.remaining),
     card_used |-> CardUsed(f.cards, Raw(Skip(s, 4)))]

\* df.sort_values("date").reset_index(drop=True): the rows in ascending order
\* of date.  Rows of one date are kept in the order they were generated.
\* The sort splits the range of dates in halves, so that its depth is the
\* logarithm of the length of the window.
DateOrdinal(dt) == (dt[1] * 12 + (dt[2] - 1)) * 31 + dt[3]

RECURSIVE SortedBetween(_, _, _)
SortedBetween(rows, lo, hi) ==
    IF rows = <<>> \/ lo = hi THEN rows
    ELSE LET mid == (lo + hi) \div 2
         IN SortedBetween(SelectSeq(rows, LAMBDA r : DateOrdinal(r.date) <= mid),
                          lo, mid)
              \o SortedBetween(SelectSeq(rows, LAMBDA r : DateOrdinal(r.date) > mid),
                               mid + 1, hi)

\* Fault variant: the rows are returned in the order they were generated.
SortByDateSkipped(rows) == rows

SortByDate(rows) ==
    IF rows = <<>> THEN <<>>
    ELSE LET ords == {DateOrdinal(rows[i].date) : i \in 1..Len(rows)}
             lo == CHOOSE x \in ords : \A y \in ords : x <= y
             hi == CHOOSE x \in ords : \A y \in ords : x >= y
         IN SortedBetween(rows, lo, hi)

\* df = pd.DataFrame(all_txns); if not df.empty: df = df.sort_values("date")
\* Fault variant: the sort is not guarded, and sort_values("date") raises a
\* KeyError on the frame of no rows, which has no columns.
FinalTableUnguarded(all_txns) ==
    IF all_txns = <<>> THEN [table |-> <<>>, error |-> "KeyError"]
    ELSE [table |-> SortByDate(all_txns), error |-> ""]

FinalTable(all_txns) ==
    IF all_txns = <<>> THEN [table |-> <<>>, error |-> ""]
    ELSE [table |-> SortByDate(all_txns), error |-> ""]

(***************************************************************************)
(* Initial states: the generators as constructed.                          *)
(***************************************************************************)
\* A directory that does not exist.  The files of a directory are pairs
\* <<path, run that wrote it>>.
Absent == [exists |-> FALSE, files |-> {}]

\* A directory that exists, with the files under it.
Dir(files) == [exists |-> TRUE, files |-> files]

\* The directories of download_data.py before any run, and main() not started.
NoDisk == [current |-> Absent, stage |-> Absent, tmp_target |-> Absent,
           backup |-> Absent]

NoRun == [pc |-> "off", sources |-> <<>>, fail_fast |-> FALSE, all_ok |-> TRUE,
          results |-> <<>>, exit |-> -1, before |-> Absent,
          committing |-> FALSE, committed |-> FALSE]

\* preprocessing/cleaning.py: no table given to a cleaning function yet.
NoClean == [fn |-> "off", df |-> <<>>, now |-> 0, outputs |-> <<>>]

\* scrapers/base_scraper.py: no scraper constructed.
NoScraper ==
    [constructed |-> FALSE,
     stats |-> [requests_made |-> 0, requests_failed |-> 0],
     calls |-> <<>>]

\* Start dates of the window: a day inside the last month of a year, so that
\* the window crosses a year boundary and its first month is entered mid-month.
StartDates == {<<2023, 12, 15>>}

\* The local variables of TransactionGenerator.generate (gen .. txn_counter),
\* of _generate_user_transactions (user_id .. cat) and of
\* _split_into_transactions (category .. counter); cat and user index the
\* loops over category_weights.items() and profiles_df.iterrows().
NoFrame ==
    [gen |-> 0, profiles |-> <<>>, user |-> 0, all_txns |-> <<>>, txn_counter |-> 0,
     user_id |-> <<>>, archetype |-> "", cards |-> <<>>, monthly_budget |-> 0,
     txns |-> <<>>, current |-> <<>>, year |-> 0, month |-> 0, days_in_month |-> 0,
     cat |-> 0,
     category |-> "", monthly_amount |-> 0, est_num |-> 0, j |-> 0, remaining |-> 0,
     cat_txns |-> <<>>, counter |-> 0]

Init ==
    /\ \E n \in 1..MaxUsers, seed \in Seeds :
           pgens = <<NewUserProfileGenerator(n, seed)>>
    /\ \E seed \in Seeds, months \in 1..MaxMonths, start \in StartDates :
           tgens = <<NewTransactionGenerator(seed, months, start)>>
    /\ profileTables = <<>>
    /\ returned = <<>>
    /\ pc = "idle"
    /\ frame = NoFrame
    /\ config = ShippedConfig
    /\ raised = <<>>
    /\ mappings = <<>>
    /\ disk = NoDisk
    /\ dl = NoRun
    /\ clean = NoClean
    /\ scraper = NoScraper

(***************************************************************************)
(* UserProfileGenerator.generate(), a whole call.                          *)
(***************************************************************************)
\* Fault variant: the random state is shared by all instances (a class
\* attribute) instead of belonging to the instance.
PG_GenerateSharedRng(g) ==
    /\ pc = "idle"
    /\ Len(profileTables) < MaxCalls
    /\ LET out == GenerateProfiles(pgens[g].num_users, pgens[1].rng)
       IN /\ profileTables' = Append(profileTables, [gen |-> g, table |-> out.table])
          /\ pgens' = [pgens EXCEPT ![1].rng = out.rng]
    /\ UNCHANGED <<tgens, returned, pc, frame, config, raised, mappings, disk, dl, clean, scraper>>

\* The calls of `call` that ended in an exception.
Raised(call) == SelectSeq(raised, LAMBDA e : e.call = call)

PG_Generate(g) ==
    /\ pc = "idle"
    /\ Len(profileTables) + Len(Raised("UserProfileGenerator.generate")) < MaxCalls
    /\ LET out == GenerateProfiles(pgens[g].num_users, pgens[g].rng)
       IN /\ IF out.error = ""
             THEN /\ profileTables' =
                         Append(profileTables, [gen |-> g, table |-> out.table])
                  /\ UNCHANGED raised
             ELSE /\ raised' = Append(raised,
                                      [call |-> "UserProfileGenerator.generate",
                                       gen |-> g, profiles |-> <<>>,
                                       error |-> out.error])
                  /\ UNCHANGED profileTables
          /\ pgens' = [pgens EXCEPT ![g].rng = out.rng]
    /\ UNCHANGED <<tgens, returned, pc, frame, config, mappings, disk, dl, clean, scraper>>

(***************************************************************************)
(* TransactionGenerator.generate(profiles_df), one step per loop           *)
(* iteration.  The call runs alone from its start to its return.           *)
(***************************************************************************)
\* The call starts, on the table the profile generator returned last:
\* all_txns = [], txn_counter = 0.
TG_Generate(g) ==
    /\ pc = "idle"
    /\ Len(returned) + Len(Raised("TransactionGenerator.generate")) < MaxCalls
    /\ profileTables # <<>>
    /\ frame' = [NoFrame EXCEPT !.gen = g,
                                !.profiles = profileTables[Len(profileTables)].table,
                                !.user = 1]
    /\ pc' = "users"
    /\ UNCHANGED <<pgens, profileTables, tgens, returned>>
    /\ UNCHANGED <<config, raised, mappings, disk, dl, clean, scraper>>

\* for _, user in profiles_df.iterrows(): the next user enters
\* _generate_user_transactions; after the last one the table is sorted by
\* date and returned.
TG_Users ==
    /\ pc = "users"
    /\ IF frame.user <= Len(frame.profiles)
       THEN LET user == frame.profiles[frame.user]
                archetype == ArchetypeOf(user.archetype)
            IN IF archetype = KeyError
               THEN /\ raised' = Append(raised,
                                        [call |-> "TransactionGenerator.generate",
                                         gen |-> frame.gen,
                                         profiles |-> frame.profiles,
                                         error |-> "KeyError"])
                    /\ frame' = NoFrame
                    /\ pc' = "idle"
                    /\ UNCHANGED returned
               ELSE /\ frame' = [frame EXCEPT !.user_id = user.user_id,
                                              !.archetype = archetype.name,
                                              !.cards = user.cards,
                                              !.monthly_budget = user.monthly_budget,
                                              !.txns = <<>>,
                                              !.current = FirstCurrent(tgens[frame.gen])]
                    /\ pc' = "months"
                    /\ UNCHANGED <<returned, raised>>
       ELSE LET df == FinalTable(frame.all_txns)
            IN /\ IF df.error = ""
                  THEN /\ returned' = Append(returned,
                                             [gen |-> frame.gen,
                                              profiles |-> frame.profiles,
                                              table |-> df.table])
                       /\ UNCHANGED raised
                  ELSE /\ raised' = Append(raised,
                                           [call |-> "TransactionGenerator.generate",
                                            gen |-> frame.gen,
                                            profiles |-> frame.profiles,
                                            error |-> df.error])
                       /\ UNCHANGED returned
               /\ frame' = NoFrame
               /\ pc' = "idle"
    /\ UNCHANGED <<pgens, profileTables, tgens, config, mappings, disk, dl, clean, scraper>>

\* while current < self.end_date: the month is entered; at the end of the
\* window the user's transactions are returned and appended to all_txns.
TG_Months ==
    /\ pc = "months"
    /\ IF MonthLoopContinues(frame.current, tgens[frame.gen])
       THEN /\ frame' = [frame EXCEPT !.month = frame.current[2],
                                      !.year = frame.current[1],
                                      !.days_in_month = DaysInMonth(frame.current),
                                      !.cat = 1]
            /\ pc' = "categories"
       ELSE /\ frame' = [frame EXCEPT !.all_txns = frame.all_txns \o frame.txns,
                                      !.txns = <<>>,
                                      !.user = frame.user + 1]
            /\ pc' = "users"
    /\ UNCHANGED <<pgens, profileTables, tgens, returned>>
    /\ UNCHANGED <<config, raised, mappings, disk, dl, clean, scraper>>

\* for category, base_weight in archetype.category_weights.items(): a
\* category of no weight is skipped; otherwise the budget is drawn and
\* _split_into_transactions is entered.  After the last category current
\* advances to the next month.
TG_Categories ==
    /\ pc = "categories"
    /\ LET weights == CategoryWeights(frame.archetype)
           s == tgens[frame.gen].rng
       IN IF frame.cat > Len(weights)
          THEN /\ frame' = [frame EXCEPT !.current = NextCurrent(frame.current)]
               /\ pc' = "months"
               /\ UNCHANGED tgens
          ELSE LET category == weights[frame.cat][1]
                   base_weight == weights[frame.cat][2]
                   cat_budget == CatBudget(frame.monthly_budget, base_weight,
                                           Seasonal(category, frame.month),
                                           Noise(Raw(s)))
               IN IF SkipsCategory(base_weight)
                  THEN /\ frame' = [frame EXCEPT !.cat = frame.cat + 1]
                       /\ pc' = "categories"
                       /\ UNCHANGED tgens
                  ELSE IF SplitReturnsNone(cat_budget)
                  THEN /\ frame' = [frame EXCEPT !.cat = frame.cat + 1]
                       /\ pc' = "categories"
                       /\ tgens' = [tgens EXCEPT ![frame.gen].rng = Skip(s, 1)]
                  ELSE /\ frame' = [frame EXCEPT
                                       !.category = category,
                                       !.monthly_amount = cat_budget,
                                       !.est_num =
                                           DrawnNum(EstNum(cat_budget,
                                                           AmountParams(category)[1]),
                                                    Raw(Skip(s, 1))),
                                       !.j = 0,
                                       !.remaining = cat_budget,
                                       !.cat_txns = <<>>,
                                       !.counter = frame.txn_counter]
                       /\ pc' = "split"
                       /\ tgens' = [tgens EXCEPT ![frame.gen].rng = Skip(s, 2)]
    /\ UNCHANGED <<pgens, profileTables, returned, config, raised, mappings, disk, dl, clean, scraper>>

\* for j in range(est_num): one transaction is appended; when the loop ends
\* the category's transactions are returned, counted and appended to txns.
TG_Split ==
    /\ pc = "split"
    /\ LET s == tgens[frame.gen].rng
       IN IF SplitLoopContinues(frame.j, frame.est_num, frame.remaining)
          THEN LET txn == NewTransaction(frame, s)
               IN /\ frame' = [frame EXCEPT !.remaining = frame.remaining - txn.amount,
                                            !.counter = frame.counter + 1,
                                            !.cat_txns = Append(frame.cat_txns, txn),
                                            !.j = frame.j + 1]
                  /\ pc' = "split"
                  /\ tgens' = [tgens EXCEPT ![frame.gen].rng = Skip(s, 5)]
          ELSE /\ frame' = [frame EXCEPT
                               !.txn_counter = CountedAfter(frame.txn_counter, frame.cat_txns),
                               !.txns = frame.txns \o frame.cat_txns,
                               !.cat = frame.cat + 1,
                               !.category = "", !.monthly_amount = 0, !.est_num = 0,
                               !.j = 0, !.remaining = 0, !.cat_txns = <<>>,
                               !.counter = 0]
               /\ pc' = "categories"
               /\ UNCHANGED tgens
    /\ UNCHANGED <<pgens, profileTables, returned, config, raised, mappings, disk, dl, clean, scraper>>

Next ==
    \/ \E g \in 1..Len(pgens) : PG_Generate(g)
    \/ \E g \in 1..Len(tgens) : TG_Generate(g)
    \/ TG_Users
    \/ TG_Months
    \/ TG_Categories
    \/ TG_Split

Spec == Init /\ [][Next]_vars

(***************************************************************************)
(* Two instances of each generator, as the reproducibility tests construct *)
(* them (test_same_seed_same_output, test_same_seed_same_transactions):    *)
(* the two share num_users and the window (one month from the first of     *)
(* February 2024), each has a seed of its own.                             *)
(***************************************************************************)
InitTwo ==
    /\ \E n \in 1..MaxUsers, seed1 \in Seeds, seed2 \in Seeds :
           pgens = <<NewUserProfileGenerator(n, seed1),
                     NewUserProfileGenerator(n, seed2)>>
    /\ \E seed1 \in Seeds, seed2 \in Seeds :
           tgens = <<NewTransactionGenerator(seed1, 1, <<2024, 2, 1>>),
                     NewTransactionGenerator(seed2, 1, <<2024, 2, 1>>)>>
    /\ profileTables = <<>>
    /\ returned = <<>>
    /\ pc = "idle"
    /\ frame = NoFrame
    /\ config = ShippedConfig
    /\ raised = <<>>
    /\ mappings = <<>>
    /\ disk = NoDisk
    /\ dl = NoRun
    /\ clean = NoClean
    /\ scraper = NoScraper

\* Each instance is called once, freshly constructed.
NextTwo ==
    \/ \E g \in 1..Len(pgens) :
           /\ \A i \in 1..Len(profileTables) : profileTables[i].gen # g
           /\ PG_Generate(g)
    \/ \E g \in 1..Len(tgens) :
           /\ \A i \in 1..Len(returned) : returned[i].gen # g
           /\ TG_Generate(g)
    \/ TG_Users
    \/ TG_Months
    \/ TG_Categories
    \/ TG_Split

SpecTwo == InitTwo /\ [][NextTwo]_vars

(***************************************************************************)
(* A long window: LongMonths months from the first of May 2023, one user.  *)
(***************************************************************************)
LongMonths == 65

InitLong ==
    /\ \E seed \in Seeds : pgens = <<NewUserProfileGenerator(1, seed)>>
    /\ tgens = <<NewTransactionGenerator(0, LongMonths, <<2023, 5, 1>>)>>
    /\ profileTables = <<>>
    /\ returned = <<>>
    /\ pc = "idle"
    /\ frame = NoFrame
    /\ config = ShippedConfig
    /\ raised = <<>>
    /\ mappings = <<>>
    /\ disk = NoDisk
    /\ dl = NoRun
    /\ clean = NoClean
    /\ scraper = NoScraper

SpecLong == InitLong /\ [][Next]_vars

(***************************************************************************)
(* Catalogs that break the invariants of config.py, and profile tables     *)
(* built by the caller, as the edge-case tests build them                  *)
(* (test_empty_profiles_returns_empty_transactions).                       *)
(***************************************************************************)
\* Every archetype gives weight 0.05 to a category key that is neither in
\* SPENDING_CATEGORIES nor in TRANSACTION_AMOUNT_PARAMS.
UnknownCategoryConfig ==
    [ShippedConfig EXCEPT !.SPENDING_ARCHETYPES =
        [i \in 1..Len(SPENDING_ARCHETYPES) |->
            [SPENDING_ARCHETYPES[i] EXCEPT
                !.category_weights = Append(@, <<"crypto", 5>>)]]]

\* ARCHETYPE_DISTRIBUTION names an archetype that SPENDING_ARCHETYPES lacks.
UnknownArchetypeConfig ==
    [ShippedConfig EXCEPT !.ARCHETYPE_DISTRIBUTION = Append(@, <<"ghost", 10>>)]

Configs == {ShippedConfig, UnknownCategoryConfig, UnknownArchetypeConfig}

\* A profile row written by hand, with the columns of generate().
GivenRow(i, archetype_name) ==
    [user_id |-> UserId(i), archetype |-> archetype_name, monthly_budget |-> 200000,
     cards |-> <<"Citi Double Cash", "Amex Gold">>,
     redemption_preference |-> "cash_back", age_group |-> "26-35",
     location_type |-> "urban"]

\* The empty table (with its columns), a table of known archetypes, and
\* tables whose first or last row names an archetype of no catalog.
GivenTables ==
    {<<>>,
     <<GivenRow(1, "budget_conscious"), GivenRow(2, "minimal_user")>>,
     <<GivenRow(1, "ghost"), GivenRow(2, "budget_conscious")>>,
     <<GivenRow(1, "budget_conscious"), GivenRow(2, "ghost")>>}

\* TransactionGenerator.generate(profiles_df) starts on a table of the caller.
TG_GenerateGiven(g) ==
    /\ pc = "idle"
    /\ Len(returned) + Len(Raised("TransactionGenerator.generate")) < MaxCalls
    /\ \E profiles \in GivenTables :
           frame' = [NoFrame EXCEPT !.gen = g, !.profiles = profiles, !.user = 1]
    /\ pc' = "users"
    /\ UNCHANGED <<pgens, profileTables, tgens, returned>>
    /\ UNCHANGED <<config, raised, mappings, disk, dl, clean, scraper>>

InitCatalog ==
    /\ \E n \in 1..MaxUsers, seed \in Seeds :
           pgens = <<NewUserProfileGenerator(n, seed)>>
    /\ \E seed \in Seeds :
           tgens = <<NewTransactionGenerator(seed, 1, <<2024, 1, 1>>)>>
    /\ profileTables = <<>>
    /\ returned = <<>>
    /\ pc = "idle"
    /\ frame = NoFrame
    /\ config \in Configs
    /\ raised = <<>>
    /\ mappings = <<>>
    /\ disk = NoDisk
    /\ dl = NoRun
    /\ clean = NoClean
    /\ scraper = NoScraper

\* Each generator is called once.
NextCatalog ==
    \/ \E g \in 1..Len(pgens) :
           /\ profileTables = <<>> /\ Raised("UserProfileGenerator.generate") = <<>>
           /\ PG_Generate(g)
    \/ \E g \in 1..Len(tgens) :
           /\ returned = <<>> /\ Raised("TransactionGenerator.generate") = <<>>
           /\ TG_Generate(g)
    \/ \E g \in 1..Len(tgens) :
           /\ returned = <<>> /\ Raised("TransactionGenerator.generate") = <<>>
           /\ TG_GenerateGiven(g)
    \/ TG_Users
    \/ TG_Months
    \/ TG_Categories
    \/ TG_Split

SpecCatalog == InitCatalog /\ [][NextCatalog]_vars

(***************************************************************************)
(* UserProfileGenerator.generate_user_cards_mapping(profiles_df), a whole  *)
(* call.                                                                   *)
(***************************************************************************)
\* Fault variant: only the first card of a profile is written.
CardRowsFirstOnly(row) ==
    <<[user_id |-> row.user_id, card_id |-> row.cards[1],
       redemption_preference |-> row.redemption_preference]>>

\* for card in row["cards"]: rows.append({...})
CardRows(row) ==
    [c \in 1..Len(row.cards) |->
        [user_id |-> row.user_id, card_id |-> row.cards[c],
         redemption_preference |-> row.redemption_preference]]

\* for _, row in profiles_df.iterrows(): ...
RECURSIVE CardsMapping(_)
CardsMapping(profiles_df) ==
    IF profiles_df = <<>> THEN <<>>
    ELSE CardRows(profiles_df[1]) \o CardsMapping(Tail(profiles_df))

\* Fault variant: the loop pops the cards off each row's list as it reads
\* them, so the caller's table is left with empty card lists.
PG_CardsMappingDrains(g) ==
    /\ pc = "idle"
    /\ Len(mappings) < MaxCalls
    /\ \E t \in 1..Len(profileTables) :
           /\ mappings' = Append(mappings,
                                 [gen |-> g, profiles |-> profileTables[t].table,
                                  table |-> CardsMapping(profileTables[t].table)])
           /\ profileTables' =
                  [profileTables EXCEPT ![t].table =
                      [i \in 1..Len(@) |-> [@[i] EXCEPT !.cards = <<>>]]]
    /\ UNCHANGED <<pgens, tgens, returned, pc, frame>>
    /\ UNCHANGED <<config, raised, disk, dl, clean, scraper>>

\* The call on a table generate() returned earlier.
PG_CardsMapping(g) ==
    /\ pc = "idle"
    /\ Len(mappings) < MaxCalls
    /\ \E t \in 1..Len(profileTables) :
           mappings' = Append(mappings,
                              [gen |-> g, profiles |-> profileTables[t].table,
                               table |-> CardsMapping(profileTables[t].table)])
    /\ UNCHANGED <<pgens, profileTables, tgens, returned, pc, frame>>
    /\ UNCHANGED <<config, raised, disk, dl, clean, scraper>>

\* The call with profiles_df = None: the profiles are those of self.generate().
PG_CardsMappingNone(g) ==
    /\ pc = "idle"
    /\ Len(mappings) < MaxCalls
    /\ LET out == GenerateProfiles(pgens[g].num_users, pgens[g].rng)
       IN /\ IF out.error = ""
             THEN /\ mappings' = Append(mappings,
                                        [gen |-> g, profiles |-> out.table,
                                         table |-> CardsMapping(out.table)])
                  /\ UNCHANGED raised
             ELSE /\ raised' = Append(raised,
                                      [call |-> "UserProfileGenerator.generate",
                                       gen |-> g, profiles |-> <<>>,
                                       error |-> out.error])
                  /\ UNCHANGED mappings
          /\ pgens' = [pgens EXCEPT ![g].rng = out.rng]
    /\ UNCHANGED <<profileTables, tgens, returned, pc, frame, config, disk, dl, clean, scraper>>

\* A profile generator alone.
InitCards ==
    /\ \E n \in 1..MaxUsers, seed \in Seeds :
           pgens = <<NewUserProfileGenerator(n, seed)>>
    /\ tgens = <<>>
    /\ profileTables = <<>>
    /\ returned = <<>>
    /\ pc = "idle"
    /\ frame = NoFrame
    /\ config = ShippedConfig
    /\ raised = <<>>
    /\ mappings = <<>>
    /\ disk = NoDisk
    /\ dl = NoRun
    /\ clean = NoClean
    /\ scraper = NoScraper

NextCards ==
    \/ \E g \in 1..Len(pgens) : PG_Generate(g)
    \/ \E g \in 1..Len(pgens) : PG_CardsMapping(g)
    \/ \E g \in 1..Len(pgens) : PG_CardsMappingNone(g)

SpecCards == InitCards /\ [][NextCards]_vars

(***************************************************************************)
(* scripts/download_data.py: main() and commit_stage_to_processed, one     *)
(* step per file-system operation.  The process may be killed between any  *)
(* two steps.                                                              *)
(***************************************************************************)
\* --issuers chase,amex
Issuers == <<"chase", "amex">>

\* The files a source runner writes under the stage directory, in order.
SourceFiles(source) ==
    IF source = "api" THEN <<"offers/creditcardbonuses_offers.json">>
    ELSE IF source = "issuers"
    THEN [i \in 1..Len(Issuers) |->
             "offers/issuer_" \o Issuers[i] \o "_offers.json"]
    ELSE <<"offers/nerdwallet_offers.json">>

\* atomic_write_bytes(dest, data): the file replaces one of the same path.
WriteFile(dir, path, run) == {f \in dir : f[1] # path} \cup {<<path, run>>}

RECURSIVE WriteFiles(_, _, _)
WriteFiles(dir, paths, run) ==
    IF paths = <<>> THEN dir
    ELSE WriteFiles(WriteFile(dir, paths[1], run), Tail(paths), run)

\* What <out-dir>/current holds before the run, when it exists: the files
\* of an earlier run.
OldCurrent ==
    {<<"offers/creditcardbonuses_offers.json", "old">>,
     <<"offers/nerdwallet_offers.json", "old">>,
     <<"manifest_latest.json", "old">>}

\* The order of the source blocks of main(), and the step after each.
AfterSource(source) ==
    IF source = "api" THEN "issuers"
    ELSE IF source = "issuers" THEN "nerdwallet"
    ELSE "decide"

\* The names given to --sources, split at the commas, stripped and lowered:
\* at most MaxSourceNames names, none given twice.  "synthetic" is a name
\* main() does not know.
MaxSourceNames == 3

SourceArgs ==
    {arg \in UNION {[1..n -> {"all", "api", "issuers", "nerdwallet",
                               "synthetic"}] :
                        n \in 0..MaxSourceNames} :
        \A i, j \in 1..Len(arg) : i # j => arg[i] # arg[j]}

\* resolve_sources, after the split
resolve_sources(s) ==
    IF s = <<>> THEN <<>>
    ELSE IF s = <<"all">> THEN <<"api", "issuers", "nerdwallet">>
    ELSE s

\* "api" in sources
InList(x, list) == \E i \in 1..Len(list) : list[i] = x

\* Fault variant: --fail-fast is ignored.
StopsNever(fail_fast, ok) == FALSE

\* if args.fail_fast and not ok
StopsAtFailure(fail_fast, ok) == fail_fast /\ ~ok

\* Fault variant: all_ok = ok, the result of the last source alone.
AllOkLast(all_ok, ok) == ok

\* all_ok = all_ok and ok
AllOk(all_ok, ok) == all_ok /\ ok

\* stage_parent.mkdir; safe_rmtree(stage_dir); stage_dir.mkdir
DL_Start ==
    /\ dl.pc = "start"
    /\ disk' = [disk EXCEPT !.stage = Dir({})]
    /\ dl' = [dl EXCEPT !.pc = "api"]
    /\ UNCHANGED <<pgens, profileTables, tgens, returned, pc, frame>>
    /\ UNCHANGED <<config, raised, mappings, clean, scraper>>

\* if source in sources: ok = run_one(...).  The runner returns after
\* writing its files, or raises after writing some of them (none, or the
\* files of the issuers before the one that failed); run_one catches the
\* exception.  Under --fail-fast a failure removes the stage and returns 2.
DL_RunOne(source) ==
    /\ dl.pc = source
    /\ IF ~InList(source, dl.sources)
       THEN /\ dl' = [dl EXCEPT !.pc = AfterSource(source)]
            /\ UNCHANGED disk
       ELSE \E ok \in BOOLEAN, written \in 0..Len(SourceFiles(source)) :
               /\ ok => written = Len(SourceFiles(source))
               /\ ~ok => written < Len(SourceFiles(source))
               /\ LET staged == WriteFiles(disk.stage.files,
                                           SubSeq(SourceFiles(source), 1, written),
                                           "new")
                      results == Append(dl.results, [name |-> source, ok |-> ok])
                      all_ok == AllOk(dl.all_ok, ok)
                  IN IF StopsAtFailure(dl.fail_fast, ok)
                     THEN /\ disk' = [disk EXCEPT !.stage = Absent]
                          /\ dl' = [dl EXCEPT !.pc = "done", !.exit = 2,
                                              !.results = results,
                                              !.all_ok = all_ok]
                     ELSE /\ disk' = [disk EXCEPT !.stage = Dir(staged)]
                          /\ dl' = [dl EXCEPT !.pc = AfterSource(source),
                                              !.results = results,
                                              !.all_ok = all_ok]
    /\ UNCHANGED <<pgens, profileTables, tgens, returned, pc, frame>>
    /\ UNCHANGED <<config, raised, mappings, clean, scraper>>

\* if not all_ok: the run report is written to the stage, the stage is
\* removed and main returns 1.  Otherwise commit_stage_to_processed is called.
DL_Decide ==
    /\ dl.pc = "decide"
    /\ IF ~dl.all_ok
       THEN /\ disk' = [disk EXCEPT !.stage = Absent]
            /\ dl' = [dl EXCEPT !.pc = "done", !.exit = 1]
       ELSE /\ dl' = [dl EXCEPT !.pc = "commit_copy", !.committing = TRUE,
                                !.committed = TRUE]
            /\ UNCHANGED disk
    /\ UNCHANGED <<pgens, profileTables, tgens, returned, pc, frame>>
    /\ UNCHANGED <<config, raised, mappings, clean, scraper>>

\* commit_stage_to_processed: shutil.copytree(stage_dir, tmp_target)
DL_CommitCopy ==
    /\ dl.pc = "commit_copy"
    /\ disk' = [disk EXCEPT !.tmp_target = disk.stage]
    /\ dl' = [dl EXCEPT !.pc = "commit_backup"]
    /\ UNCHANGED <<pgens, profileTables, tgens, returned, pc, frame>>
    /\ UNCHANGED <<config, raised, mappings, clean, scraper>>

\* if current.exists(): os.replace(str(current), str(backup))
DL_CommitBackup ==
    /\ dl.pc = "commit_backup"
    /\ IF disk.current # Absent
       THEN disk' = [disk EXCEPT !.backup = disk.current, !.current = Absent]
       ELSE UNCHANGED disk
    /\ dl' = [dl EXCEPT !.pc = "commit_swap"]
    /\ UNCHANGED <<pgens, profileTables, tgens, returned, pc, frame>>
    /\ UNCHANGED <<config, raised, mappings, clean, scraper>>

\* os.replace(str(tmp_target), str(current))
DL_CommitSwap ==
    /\ dl.pc = "commit_swap"
    /\ disk' = [disk EXCEPT !.current = disk.tmp_target, !.tmp_target = Absent]
    /\ dl' = [dl EXCEPT !.pc = "commit_cleanup"]
    /\ UNCHANGED <<pgens, profileTables, tgens, returned, pc, frame>>
    /\ UNCHANGED <<config, raised, mappings, clean, scraper>>

\* safe_rmtree(backup); the commit returns.
DL_CommitCleanup ==
    /\ dl.pc = "commit_cleanup"
    /\ disk' = [disk EXCEPT !.backup = Absent]
    /\ dl' = [dl EXCEPT !.pc = "manifest", !.committing = FALSE]
    /\ UNCHANGED <<pgens, profileTables, tgens, returned, pc, frame>>
    /\ UNCHANGED <<config, raised, mappings, clean, scraper>>

\* atomic_write_json(current / "manifest_latest.json", manifest) and the
\* per-run manifest beside it.
DL_Manifest ==
    /\ dl.pc = "manifest"
    /\ disk' = [disk EXCEPT !.current =
                    Dir(WriteFiles(disk.current.files,
                                   <<"manifest_latest.json", "manifest_run.json">>,
                                   "new"))]
    /\ dl' = [dl EXCEPT !.pc = "cleanup"]
    /\ UNCHANGED <<pgens, profileTables, tgens, returned, pc, frame>>
    /\ UNCHANGED <<config, raised, mappings, clean, scraper>>

\* Fault variant: main returns 0 without removing the stage.
DL_CleanupKeepsStage ==
    /\ dl.pc = "cleanup"
    /\ dl' = [dl EXCEPT !.pc = "done", !.exit = 0]
    /\ UNCHANGED disk
    /\ UNCHANGED <<pgens, profileTables, tgens, returned, pc, frame>>
    /\ UNCHANGED <<config, raised, mappings, clean, scraper>>

\* safe_rmtree(stage_dir); return 0
DL_Cleanup ==
    /\ dl.pc = "cleanup"
    /\ disk' = [disk EXCEPT !.stage = Absent]
    /\ dl' = [dl EXCEPT !.pc = "done", !.exit = 0]
    /\ UNCHANGED <<pgens, profileTables, tgens, returned, pc, frame>>
    /\ UNCHANGED <<config, raised, mappings, clean, scraper>>

\* The process is killed between two steps: the disk stays as it is.
DL_Crash ==
    /\ dl.pc \notin {"off", "done", "crashed", "raised"}
    /\ dl' = [dl EXCEPT !.pc = "crashed"]
    /\ UNCHANGED disk
    /\ UNCHANGED <<pgens, profileTables, tgens, returned, pc, frame>>
    /\ UNCHANGED <<config, raised, mappings, clean, scraper>>

\* commit_stage_to_processed or a manifest write raises (a full disk, a
\* permission, a directory in use): main has no handler, the exception
\* leaves main.  A copy that fails leaves what it had copied, and a failure
\* of the second manifest write leaves the first manifest.
DL_Raise ==
    /\ dl.pc \in {"commit_copy", "commit_backup", "commit_swap", "manifest"}
    /\ dl' = [dl EXCEPT !.pc = "raised"]
    /\ IF dl.pc = "commit_copy"
       THEN \E copied \in SUBSET disk.stage.files :
               disk' = [disk EXCEPT !.tmp_target = Dir(copied)]
       ELSE IF dl.pc = "manifest"
       THEN \E written \in 0..1 :
               disk' = [disk EXCEPT !.current =
                           Dir(WriteFiles(disk.current.files,
                                          SubSeq(<<"manifest_latest.json">>,
                                                 1, written),
                                          "new"))]
       ELSE UNCHANGED disk
    /\ UNCHANGED <<pgens, profileTables, tgens, returned, pc, frame>>
    /\ UNCHANGED <<config, raised, mappings, clean, scraper>>

\* main() is entered with --sources and --fail-fast parsed, over an output
\* directory whose current set exists or not.
InitDownload ==
    /\ pgens = <<>>
    /\ profileTables = <<>>
    /\ tgens = <<>>
    /\ returned = <<>>
    /\ pc = "idle"
    /\ frame = NoFrame
    /\ config = ShippedConfig
    /\ raised = <<>>
    /\ mappings = <<>>
    /\ clean = NoClean
    /\ scraper = NoScraper
    /\ \E current \in {Absent, Dir(OldCurrent)} :
          /\ disk = [NoDisk EXCEPT !.current = current]
          /\ \E arg \in SourceArgs, fail_fast \in BOOLEAN :
                dl = [NoRun EXCEPT !.pc = "start",
                                   !.sources = resolve_sources(arg),
                                   !.fail_fast = fail_fast, !.before = current]

NextDownload ==
    \/ DL_Start
    \/ \E source \in {"api", "issuers", "nerdwallet"} : DL_RunOne(source)
    \/ DL_Decide
    \/ DL_CommitCopy
    \/ DL_CommitBackup
    \/ DL_CommitSwap
    \/ DL_CommitCleanup
    \/ DL_Manifest
    \/ DL_Cleanup
    \/ DL_Raise
    \/ DL_Crash

SpecDownload == InitDownload /\ [][NextDownload]_vars

(***************************************************************************)
(* preprocessing/cleaning.py.  A table is its set of columns and its rows, *)
(* each row a function from the columns to cells.  A cell is a missing     *)
(* value, a number, a string (a sequence of characters), a timestamp, a    *)
(* dictionary of reward rates or a boolean.                                *)
(***************************************************************************)
NA == [kind |-> "na", v |-> 0, s |-> <<>>]
Num(v) == [kind |-> "num", v |-> v, s |-> <<>>]
Str(s) == [kind |-> "str", v |-> 0, s |-> s]
Timestamp(v) == [kind |-> "timestamp", v |-> v, s |-> <<>>]
Bool(b) == [kind |-> "bool", v |-> IF b THEN 1 ELSE 0, s |-> <<>>]
\* {"universal_base_rate": v / 10}
RewardRates(v) == [kind |-> "dict", v |-> v, s |-> <<>>]

\* Longest table given to a cleaning function.
MaxRows == 2
\* Clock readings of pd.Timestamp.now(), which never runs backwards.
MaxNow == 2
\* Times a cleaning function is applied, each time to its previous output.
MaxApplications == 2

DataFrame(columns, rows) ==
    [columns |-> columns,
     rows |-> [i \in 1..Len(rows) |-> [c \in columns |-> rows[i][c]]]]

\* str.upper() on the characters the inputs use
Upper(c) ==
    CASE c = "a" -> "A"
      [] c = "b" -> "B"
      [] OTHER -> c

StrUpper(s) == [i \in 1..Len(s) |-> Upper(s[i])]

\* str.replace("_", " ")
StrReplace(s) == [i \in 1..Len(s) |-> IF s[i] = "_" THEN " " ELSE s[i]]

\* str.strip()
RECURSIVE StrStrip(_)
StrStrip(s) ==
    IF s = <<>> THEN s
    ELSE IF s[1] = " " THEN StrStrip(Tail(s))
    ELSE IF s[Len(s)] = " " THEN StrStrip(SubSeq(s, 1, Len(s) - 1))
    ELSE s

\* df["issuer"].astype("string").str.upper().str.replace("_", " ").str.strip()
\* on one cell; a missing value stays missing.
StandardizeIssuer(cell) ==
    IF cell.kind = "str" THEN Str(StrStrip(StrReplace(StrUpper(cell.s))))
    ELSE NA

IsDigit(c) == \E d \in 1..10 : DigitChar[d] = c

DigitValue(c) == (CHOOSE d \in 1..10 : DigitChar[d] = c) - 1

RECURSIVE ParseDigits(_)
ParseDigits(s) ==
    IF s = <<>> THEN 0
    ELSE 10 * ParseDigits(SubSeq(s, 1, Len(s) - 1)) + DigitValue(s[Len(s)])

\* pd.to_numeric(column, errors="coerce") on one cell
ToNumeric(cell) ==
    IF cell.kind = "num" THEN cell
    ELSE IF /\ cell.kind = "str"
            /\ cell.s # <<>>
            /\ \A i \in 1..Len(cell.s) : IsDigit(cell.s[i])
    THEN Num(ParseDigits(cell.s))
    ELSE NA

\* pd.to_datetime(column, errors="coerce") on one cell
ToDatetime(cell) == IF cell.kind = "timestamp" THEN cell ELSE NA

\* df.drop_duplicates(subset=subset): the first row of each key is kept.
DropDuplicates(rows, subset) ==
    LET Key(r) == [c \in subset |-> r[c]]
        kept[i \in 0..Len(rows)] ==
            IF i = 0 THEN <<>>
            ELSE IF \E j \in 1..(i - 1) : Key(rows[j]) = Key(rows[i])
            THEN kept[i - 1]
            ELSE Append(kept[i - 1], rows[i])
    IN kept[Len(rows)]

\* clean_credit_card_data(df): the cleaned table and the cleaning report.
clean_credit_card_data(df) ==
    LET dedup_key ==
            IF "card_id" \in df.columns THEN {"card_id"}
            ELSE IF {"card_name", "issuer"} \subseteq df.columns
            THEN {"card_name", "issuer"}
            ELSE {}
        deduped ==
            IF dedup_key = {} THEN df.rows
            ELSE DropDuplicates(df.rows, dedup_key)
        FillRewardRates(x) == IF x.kind # "na" THEN x ELSE RewardRates(10)
        rewarded ==
            IF "reward_rates" \in df.columns
            THEN [i \in 1..Len(deduped) |->
                     [deduped[i] EXCEPT !["reward_rates"] = FillRewardRates(@)]]
            ELSE deduped
        issued ==
            IF "issuer" \in df.columns
            THEN [i \in 1..Len(rewarded) |->
                     [rewarded[i] EXCEPT !["issuer"] = StandardizeIssuer(@)]]
            ELSE rewarded
        numeric ==
            IF "annual_fee" \in df.columns
            THEN [i \in 1..Len(issued) |->
                     [issued[i] EXCEPT !["annual_fee"] = ToNumeric(@)]]
            ELSE issued
        invalid_mask(r) ==
            \/ r["annual_fee"].kind = "na"
            \/ r["annual_fee"].v < 0
            \/ r["annual_fee"].v >= 1000
        valid(r) == ~invalid_mask(r)
        final ==
            IF "annual_fee" \in df.columns
            THEN SelectSeq(numeric, valid)
            ELSE numeric
    IN [df |-> [columns |-> df.columns, rows |-> final],
        report |->
            [initial_count |-> Len(df.rows),
             after_dedup |-> Len(deduped),
             dedup_removed |-> Len(df.rows) - Len(deduped),
             invalid_annual_fees |->
                 IF "annual_fee" \in df.columns
                 THEN Len(SelectSeq(numeric, invalid_mask)) ELSE 0,
             annual_fee_removed |-> Len(numeric) - Len(final),
             final_count |-> Len(final)]]

\* clean_transaction_data(df) with pd.Timestamp.now() reading `now`.
clean_transaction_data(df, now) ==
    LET numeric ==
            IF "amount" \in df.columns
            THEN [i \in 1..Len(df.rows) |->
                     [df.rows[i] EXCEPT !["amount"] = ToNumeric(@)]]
            ELSE df.rows
        \* a comparison with a missing amount is False
        neg_mask(r) == r["amount"].kind = "num" /\ r["amount"].v < 0
        not_neg(r) == ~neg_mask(r)
        positive ==
            IF "amount" \in df.columns
            THEN SelectSeq(numeric, not_neg)
            ELSE numeric
        invalid_mask(r) == ToDatetime(r["date"]).kind = "na"
        future_mask(r) ==
            ToDatetime(r["date"]).kind = "timestamp" /\ ToDatetime(r["date"]).v > now
        not_dropped(r) == ~(invalid_mask(r) \/ future_mask(r))
        dated ==
            IF "date" \in df.columns
            THEN SelectSeq(positive, not_dropped)
            ELSE positive
        FillCategory(x) == IF x.kind # "na" THEN x ELSE Str(<<"unknown">>)
        categorised ==
            IF "category" \in df.columns
            THEN [i \in 1..Len(dated) |->
                     [dated[i] EXCEPT !["category"] = FillCategory(@)]]
            ELSE dated
        suspicious_mask(r) == r["amount"].kind = "num" /\ r["amount"].v > 10000
        columns == df.columns \cup {"suspicious"}
        flagged ==
            [i \in 1..Len(categorised) |->
                [c \in columns |->
                    IF c # "suspicious" THEN categorised[i][c]
                    ELSE IF "amount" \in df.columns
                    THEN Bool(suspicious_mask(categorised[i]))
                    ELSE Bool(FALSE)]]
    IN [df |-> [columns |-> columns, rows |-> flagged],
        report |->
            [initial_count |-> Len(df.rows),
             negative_amounts_removed |-> Len(numeric) - Len(positive),
             dates_removed |-> Len(positive) - Len(dated),
             suspicious_high_amounts |->
                 IF "amount" \in df.columns
                 THEN Len(SelectSeq(categorised, suspicious_mask)) ELSE 0,
             final_count |-> Len(flagged)]]

\* Rows of card tables given to clean_credit_card_data: issuers that differ
\* by case, underscore or surrounding blanks, or are missing; fees that are
\* valid, out of range, numeric text or not numbers.
CardInputRows ==
    {[card_id |-> Str(<<id>>), card_name |-> Str(<<"A">>), issuer |-> issuer,
      annual_fee |-> fee,
      reward_rates |-> IF id = "1" THEN NA ELSE RewardRates(20)] :
        id \in {"1", "2"},
        issuer \in {Str(<<"a", "_", "b">>), Str(<<"A", " ", "B">>),
                    Str(<<"a", " ", "b", " ">>), NA},
        fee \in {Num(0), Num(1000), Str(<<"9", "5">>)}}

CardColumnSets ==
    {{"card_id", "card_name", "issuer", "annual_fee", "reward_rates"},
     {"card_name", "issuer", "annual_fee", "reward_rates"},
     {"card_name", "annual_fee"}}

\* Rows of transaction tables given to clean_transaction_data.
TransactionInputRows ==
    {[amount |-> amount, date |-> date, category |-> category] :
        amount \in {Num(0 - 5), Num(20000), Str(<<"x">>)},
        date \in {Timestamp(MaxNow), Str(<<"x">>)},
        category \in {NA, Str(<<"dining">>)}}

TransactionColumnSets == {{"amount", "date", "category"}, {"date", "category"}}

\* All sequences over `rows` of length at most MaxRows.
TablesOver(rows) == UNION {[1..n -> rows] : n \in 0..MaxRows}

\* One application of the cleaning function to the given table, or to the
\* table the previous application returned.
Clean ==
    /\ clean.fn # "off"
    /\ Len(clean.outputs) < MaxApplications
    /\ LET df == IF clean.outputs = <<>> THEN clean.df
                 ELSE clean.outputs[Len(clean.outputs)].df
       IN IF clean.fn = "clean_credit_card_data"
          THEN clean' = [clean EXCEPT !.outputs =
                            Append(@, clean_credit_card_data(df))]
          ELSE \E now \in clean.now..MaxNow :
                  clean' = [clean EXCEPT !.now = now, !.outputs =
                               Append(@, clean_transaction_data(df, now))]
    /\ UNCHANGED <<pgens, profileTables, tgens, returned, pc, frame>>
    /\ UNCHANGED <<config, raised, mappings, disk, dl, scraper>>

InitClean ==
    /\ pgens = <<>>
    /\ profileTables = <<>>
    /\ tgens = <<>>
    /\ returned = <<>>
    /\ pc = "idle"
    /\ frame = NoFrame
    /\ config = ShippedConfig
    /\ raised = <<>>
    /\ mappings = <<>>
    /\ disk = NoDisk
    /\ dl = NoRun
    /\ scraper = NoScraper
    /\ \/ \E columns \in CardColumnSets, rows \in TablesOver(CardInputRows) :
             clean = [NoClean EXCEPT !.fn = "clean_credit_card_data",
                                     !.df = DataFrame(columns, rows)]
       \/ \E columns \in TransactionColumnSets,
             rows \in TablesOver(TransactionInputRows) :
             clean = [NoClean EXCEPT !.fn = "clean_transaction_data",
                                     !.now = 1,
                                     !.df = DataFrame(columns, rows)]

NextClean == Clean

SpecClean == InitClean /\ [][NextClean]_vars

(***************************************************************************)
(* scrapers/base_scraper.py: the request statistics of one scraper.        *)
(***************************************************************************)
\* Calls made on one scraper.
MaxFetches == 3

\* What session.get followed by raise_for_status and the parse does: it
\* returns a page, raises a requests RequestException (connection error,
\* timeout, HTTP error status), or raises some other exception.
FetchOutcomes == {"page", "RequestException", "Exception"}

\* Fault variant: the except branch does not count the failure.
FetchStatsNoFailure(stats, outcome) ==
    [stats EXCEPT !.requests_made = @ + 1]

\* The statistics after one fetch: requests_made is incremented before the
\* request, requests_failed in the except branch.
FetchStats(stats, outcome) ==
    LET made == [stats EXCEPT !.requests_made = @ + 1]
    IN IF outcome = "RequestException"
       THEN [made EXCEPT !.requests_failed = @ + 1]
       ELSE made

\* What the caller gets back.
FetchReturn(outcome) ==
    IF outcome = "page" THEN "BeautifulSoup"
    ELSE IF outcome = "RequestException" THEN "None"
    ELSE "raised"

\* BaseScraper.fetch_page(url)
FetchPage ==
    /\ scraper.constructed
    /\ Len(scraper.calls) < MaxFetches
    /\ \E outcome \in FetchOutcomes :
          scraper' = [scraper EXCEPT
              !.stats = FetchStats(@, outcome),
              !.calls = Append(@, [method |-> "fetch_page",
                                   outcome |-> outcome,
                                   returned |-> FetchReturn(outcome)])]
    /\ UNCHANGED <<pgens, profileTables, tgens, returned, pc, frame>>
    /\ UNCHANGED <<config, raised, mappings, disk, dl, clean>>

\* BaseScraper.fetch_page_with_headers(url, headers)
FetchPageWithHeaders ==
    /\ scraper.constructed
    /\ Len(scraper.calls) < MaxFetches
    /\ \E outcome \in FetchOutcomes :
          scraper' = [scraper EXCEPT
              !.stats = FetchStats(@, outcome),
              !.calls = Append(@, [method |-> "fetch_page_with_headers",
                                   outcome |-> outcome,
                                   returned |-> FetchReturn(outcome)])]
    /\ UNCHANGED <<pgens, profileTables, tgens, returned, pc, frame>>
    /\ UNCHANGED <<config, raised, mappings, disk, dl, clean>>

InitScraper ==
    /\ pgens = <<>>
    /\ profileTables = <<>>
    /\ tgens = <<>>
    /\ returned = <<>>
    /\ pc = "idle"
    /\ frame = NoFrame
    /\ config = ShippedConfig
    /\ raised = <<>>
    /\ mappings = <<>>
    /\ disk = NoDisk
    /\ dl = NoRun
    /\ clean = NoClean
    /\ scraper = [NoScraper EXCEPT !.constructed = TRUE]

NextScraper ==
    \/ FetchPage
    \/ FetchPageWithHeaders

SpecScraper == InitScraper /\ [][NextScraper]_vars

(***************************************************************************)
(* TransactionGenerator.generate on profiles of degenerate budgets: zero,  *)
(* negative, and so small that some categories get less than the minimum   *)
(* transaction amount.                                                     *)
(***************************************************************************)
\* monthly_budget of the given profiles, in cents.
GivenBudgets == {0 - 5000, 0, 1000, 2000, 200000}

\* Tables of two users of one archetype, each with a budget of its own.
BudgetTables ==
    {<<[GivenRow(1, a) EXCEPT !.monthly_budget = b1],
       [GivenRow(2, a) EXCEPT !.monthly_budget = b2]>> :
        a \in {"budget_conscious", "minimal_user"},
        b1 \in GivenBudgets, b2 \in GivenBudgets}

\* TransactionGenerator.generate(profiles_df), called once.
TG_GenerateBudgets(g) ==
    /\ pc = "idle"
    /\ returned = <<>>
    /\ \E profiles \in BudgetTables :
           frame' = [NoFrame EXCEPT !.gen = g, !.profiles = profiles, !.user = 1]
    /\ pc' = "users"
    /\ UNCHANGED <<pgens, profileTables, tgens, returned>>
    /\ UNCHANGED <<config, raised, mappings, disk, dl, clean, scraper>>

InitBudgets ==
    /\ pgens = <<>>
    /\ \E seed \in Seeds :
           tgens = <<NewTransactionGenerator(seed, 1, <<2024, 1, 1>>)>>
    /\ profileTables = <<>>
    /\ returned = <<>>
    /\ pc = "idle"
    /\ frame = NoFrame
    /\ config = ShippedConfig
    /\ raised = <<>>
    /\ mappings = <<>>
    /\ disk = NoDisk
    /\ dl = NoRun
    /\ clean = NoClean
    /\ scraper = NoScraper

NextBudgets ==
    \/ \E g \in 1..Len(tgens) : TG_GenerateBudgets(g)
    \/ TG_Users
    \/ TG_Months
    \/ TG_Categories
    \/ TG_Split

SpecBudgets == InitBudgets /\ [][NextBudgets]_vars

(***************************************************************************)
(* Both generators at work on one profile table: the profile generator     *)
(* builds it, then the transaction generator and the cards mapping read    *)
(* it, in either order.                                                    *)
(***************************************************************************)
InitReadOnly ==
    /\ \E n \in 1..MaxUsers, seed \in Seeds :
           pgens = <<NewUserProfileGenerator(n, seed)>>
    /\ \E seed \in Seeds :
           tgens = <<NewTransactionGenerator(seed, 1, <<2024, 1, 1>>)>>
    /\ profileTables = <<>>
    /\ returned = <<>>
    /\ pc = "idle"
    /\ frame = NoFrame
    /\ config = ShippedConfig
    /\ raised = <<>>
    /\ mappings = <<>>
    /\ disk = NoDisk
    /\ dl = NoRun
    /\ clean = NoClean
    /\ scraper = NoScraper

\* Each operation is called once.
NextReadOnly ==
    \/ \E g \in 1..Len(pgens) : profileTables = <<>> /\ PG_Generate(g)
    \/ \E g \in 1..Len(tgens) : returned = <<>> /\ TG_Generate(g)
    \/ \E g \in 1..Len(pgens) : mappings = <<>> /\ PG_CardsMapping(g)
    \/ TG_Users
    \/ TG_Months
    \/ TG_Categories
    \/ TG_Split

SpecReadOnly == InitReadOnly /\ [][NextReadOnly]_vars

(***************************************************************************)
(* Two transaction generators of one seed and one window.  The first is    *)
(* given a table that holds one user alone, the second a table that holds  *)
(* the same user with another one, placed before or after it.              *)
(***************************************************************************)
\* The user whose transactions are compared.
PlacedUser(archetype_name) == GivenRow(2, archetype_name)

\* generate(profiles_df) on the first generator: the user alone.
TG_GenerateAlone(g) ==
    /\ pc = "idle"
    /\ g = 1
    /\ returned = <<>>
    /\ \E a \in ArchetypeNames :
           frame' = [NoFrame EXCEPT !.gen = g, !.profiles = <<PlacedUser(a)>>,
                                    !.user = 1]
    /\ pc' = "users"
    /\ UNCHANGED <<pgens, profileTables, tgens, returned>>
    /\ UNCHANGED <<config, raised, mappings, disk, dl, clean, scraper>>

\* generate(profiles_df) on the second generator: the same user, with
\* another user before it or after it.
TG_GenerateWithOther(g) ==
    /\ pc = "idle"
    /\ g = 2
    /\ Len(returned) = 1
    /\ \E b \in ArchetypeNames, other_first \in BOOLEAN :
           LET user == returned[1].profiles[1]
               other == GivenRow(1, b)
           IN frame' = [NoFrame EXCEPT
                           !.gen = g,
                           !.profiles = IF other_first THEN <<other, user>>
                                        ELSE <<user, other>>,
                           !.user = 1]
    /\ pc' = "users"
    /\ UNCHANGED <<pgens, profileTables, tgens, returned>>
    /\ UNCHANGED <<config, raised, mappings, disk, dl, clean, scraper>>

InitPlacement ==
    /\ pgens = <<>>
    /\ \E seed \in Seeds :
           tgens = <<NewTransactionGenerator(seed, 1, <<2024, 1, 1>>),
                     NewTransactionGenerator(seed, 1, <<2024, 1, 1>>)>>
    /\ profileTables = <<>>
    /\ returned = <<>>
    /\ pc = "idle"
    /\ frame = NoFrame
    /\ config = ShippedConfig
    /\ raised = <<>>
    /\ mappings = <<>>
    /\ disk = NoDisk
    /\ dl = NoRun
    /\ clean = NoClean
    /\ scraper = NoScraper

NextPlacement ==
    \/ \E g \in 1..Len(tgens) : TG_GenerateAlone(g)
    \/ \E g \in 1..Len(tgens) : TG_GenerateWithOther(g)
    \/ TG_Users
    \/ TG_Months
    \/ TG_Categories
    \/ TG_Split

SpecPlacement == InitPlacement /\ [][NextPlacement]_vars

(***************************************************************************)
(* Properties.                                                             *)
(***************************************************************************)
\* The rows of a table, as a set.
Rows(table) == {table[i] : i \in 1..Len(table)}

\* The finished calls of TransactionGenerator.generate.
Returned == {returned[i] : i \in 1..Len(returned)}

\* The finished calls of UserProfileGenerator.generate.
ProfileCalls == {profileTables[i] : i \in 1..Len(profileTables)}

\* The profile rows with a given user_id.
Owners(profiles, user_id) == {p \in Rows(profiles) : p.user_id = user_id}

\* The (year, month) pairs of a table's dates.
YearMonths(table) == {<<row.date[1], row.date[2]>> : row \in Rows(table)}

\* Everything the running call has generated so far, in generation order.
Generated == frame.all_txns \o frame.txns \o frame.cat_txns

\* n written with exactly `width` decimal digits (n < 10^width), after a prefix.
RECURSIVE FixedDigits(_, _)
FixedDigits(n, width) ==
    IF width = 0 THEN <<>>
    ELSE FixedDigits(n \div 10, width - 1) \o <<DigitChar[(n % 10) + 1]>>

(* C1: every transaction returned by generate has                          *)
(* start_date <= date < start_date + history_months*30 days, for any       *)
(* start_date and any history_months >= 1.                                 *)
C1_DatesInsideWindow ==
    \A r \in Returned : \A row \in Rows(r.table) :
        /\ DateLE(tgens[r.gen].start_date, row.date)
        /\ DateLT(row.date, PlusDays(tgens[r.gen].start_date,
                                     tgens[r.gen].history_months * 30))

(* C2: within one generate call the transaction ids come from one counter  *)
(* that is never reset: in generation order the k-th transaction has the   *)
(* id txn_ followed by k in 7 digits, and the ids of a returned table of T *)
(* rows are pairwise distinct and are exactly those of 1..T.               *)
C2_TransactionIds ==
    /\ \A k \in 1..Len(Generated) :
           Generated[k].transaction_id = <<"txn_">> \o FixedDigits(k, 7)
    /\ \A r \in Returned :
           /\ Cardinality({row.transaction_id : row \in Rows(r.table)}) = Len(r.table)
           /\ {row.transaction_id : row \in Rows(r.table)}
                  = {<<"txn_">> \o FixedDigits(k, 7) : k \in 1..Len(r.table)}

\* A returned table with transactions of two users and of two months, and
\* more than one transaction in some category of one month.
C2_Witness ==
    \E r \in Returned :
        /\ Cardinality({row.user_id : row \in Rows(r.table)}) >= 2
        /\ Cardinality(YearMonths(r.table)) >= 2
        /\ \E a, b \in Rows(r.table) :
               /\ a # b /\ a.user_id = b.user_id /\ a.category = b.category
               /\ a.date[2] = b.date[2]

(* C3: two freshly constructed UserProfileGenerator instances with the     *)
(* same (num_users, seed) return identical tables, and two freshly         *)
(* constructed TransactionGenerator instances with the same (seed,         *)
(* history_months, start_date) return identical tables for the same        *)
(* profile table.                                                          *)
C3_SameSeedSameOutput ==
    /\ \A a, b \in ProfileCalls :
           (/\ a.gen # b.gen
            /\ pgens[a.gen].num_users = pgens[b.gen].num_users
            /\ pgens[a.gen].seed = pgens[b.gen].seed) => a.table = b.table
    /\ \A a, b \in Returned :
           (/\ a.gen # b.gen
            /\ tgens[a.gen].seed = tgens[b.gen].seed
            /\ tgens[a.gen].history_months = tgens[b.gen].history_months
            /\ tgens[a.gen].start_date = tgens[b.gen].start_date
            /\ a.profiles = b.profiles) => a.table = b.table

\* Both pairs of instances were built with equal arguments, each instance
\* has returned, and the transaction tables hold several rows.
C3_Witness ==
    /\ \E a, b \in ProfileCalls :
           /\ a.gen # b.gen /\ pgens[a.gen].seed = pgens[b.gen].seed
           /\ Len(a.table) >= 2
    /\ \E a, b \in Returned :
           /\ a.gen # b.gen /\ tgens[a.gen].seed = tgens[b.gen].seed
           /\ a.profiles = b.profiles
           /\ Len(a.table) >= 2

(* C4: two calls to generate on the same instance return identical tables: *)
(* UserProfileGenerator.generate() twice, and                              *)
(* TransactionGenerator.generate(profiles) twice with the same profiles.   *)
C4_SameInstanceSameOutput ==
    /\ \A a, b \in ProfileCalls : a.gen = b.gen => a.table = b.table
    /\ \A a, b \in Returned :
           (a.gen = b.gen /\ a.profiles = b.profiles) => a.table = b.table

(* C5: for every returned transaction, card_used is an element of the card *)
(* list of the profile row whose user_id is the transaction's user_id.     *)
C5_CardOfOwner ==
    \A r \in Returned : \A row \in Rows(r.table) :
        /\ Owners(r.profiles, row.user_id) # {}
        /\ \A p \in Owners(r.profiles, row.user_id) :
               \E c \in 1..Len(p.cards) : p.cards[c] = row.card_used

\* A user of a returned table paid with two different cards.
C5_Witness ==
    \E r \in Returned : \E a, b \in Rows(r.table) :
        a.user_id = b.user_id /\ a.card_used # b.card_used

(* C6: for every user and every category to which the user's archetype     *)
(* assigns a weight <= 0, generate emits no transaction of that user in    *)
(* that category.                                                          *)
C6_NoZeroWeightCategory ==
    \A r \in Returned : \A row \in Rows(r.table) :
        \A p \in Owners(r.profiles, row.user_id) :
            \A a \in 1..Len(SPENDING_ARCHETYPES) :
                SPENDING_ARCHETYPES[a].name = p.archetype =>
                    \A c \in 1..Len(SPENDING_ARCHETYPES[a].category_weights) :
                        SPENDING_ARCHETYPES[a].category_weights[c][1] = row.category
                            => SPENDING_ARCHETYPES[a].category_weights[c][2] > 0

\* A returned table with transactions of a minimal_user (no weight on
\* travel and home_improvement) in every month the window touches.
C6_Witness ==
    \E r \in Returned : \E p \in Rows(r.profiles) :
        /\ p.archetype = "minimal_user"
        /\ Cardinality(YearMonths(SelectSeq(r.table,
                                            LAMBDA row : row.user_id = p.user_id))) >= 2

(* C7: the amounts emitted by _split_into_transactions for one (user,      *)
(* month, category) sum to at most the monthly_amount it was given: the    *)
(* running remaining budget never becomes negative, also after rounding.   *)
RECURSIVE SumAmounts(_)
SumAmounts(txns) ==
    IF txns = <<>> THEN 0 ELSE txns[1].amount + SumAmounts(Tail(txns))

C7_WithinMonthlyAmount ==
    pc = "split" =>
        /\ frame.remaining >= 0
        /\ SumAmounts(frame.cat_txns) <= frame.monthly_amount

(* C8: every returned transaction amount is >= MIN_TRANSACTION_AMOUNT      *)
(* (1.50) and has at most 2 decimal places.                                *)
C8_AmountFloor ==
    \A r \in Returned : \A row \in Rows(r.table) :
        row.amount >= 1500 /\ row.amount % 10 = 0

\* A returned table holds an amount raised to the minimum and a larger one.
C8_Witness ==
    \E r \in Returned :
        /\ \E row \in Rows(r.table) : row.amount = 1500
        /\ \E row \in Rows(r.table) : row.amount > 1500

(* C9: for a window of N months (every N >= 1, every start_date) and a     *)
(* profile table with a user whose budget in some category reaches the     *)
(* minimum amount every month, the returned transactions contain at least  *)
(* N distinct (year, month) pairs.                                         *)
ReachesMinimumEveryMonth(profiles) ==
    \E p \in Rows(profiles) : \E c \in 1..Len(CategoryWeights(p.archetype)) :
        \A month \in 1..12 :
            CatBudget(p.monthly_budget, CategoryWeights(p.archetype)[c][2],
                      Seasonal(CategoryWeights(p.archetype)[c][1], month), 850)
                >= MIN_TRANSACTION_AMOUNT

C9_AtLeastNMonths ==
    \A r \in Returned :
        ReachesMinimumEveryMonth(r.profiles) =>
            Cardinality(YearMonths(r.table)) >= tgens[r.gen].history_months

(* C10: UserProfileGenerator(num_users=n, seed=s).generate() with n >= 1   *)
(* returns exactly n rows, and the row at position i (from 1) has the      *)
(* user_id user_ followed by i in 4 digits; the user_ids are unique.       *)
C10_ProfileCountAndIds ==
    \A e \in ProfileCalls :
        /\ Len(e.table) = pgens[e.gen].num_users
        /\ \A i \in 1..Len(e.table) :
               e.table[i].user_id = <<"user_">> \o FixedDigits(i, 4)
        /\ \A i, j \in 1..Len(e.table) :
               i # j => e.table[i].user_id # e.table[j].user_id

\* A returned profile table of several rows with two archetypes.
C10_Witness ==
    \E e \in ProfileCalls :
        /\ Len(e.table) >= 2
        /\ Cardinality({row.archetype : row \in Rows(e.table)}) >= 2

\* The calls that ended in an exception, as a set.
RaisedCalls == {raised[i] : i \in 1..Len(raised)}

\* The category keys to which an archetype gives a positive weight and that
\* the category catalog does not define.
UndefinedKeys(archetype_name) ==
    {CategoryWeights(archetype_name)[c][1] :
        c \in {k \in 1..Len(CategoryWeights(archetype_name)) :
                  /\ CategoryWeights(archetype_name)[k][2] > 0
                  /\ CategoryWeights(archetype_name)[k][1]
                         \notin KeySet(SPENDING_CATEGORIES)}}

(* C11: if an archetype gives positive weight to a category key that the   *)
(* category catalog does not define, TransactionGenerator.generate raises  *)
(* an error: it returns no table for a user of that archetype and emits no *)
(* transaction of that key.                                                *)
C11_UndefinedCategoryRaises ==
    \A r \in Returned :
        /\ \A p \in Rows(r.profiles) :
               p.archetype \in ArchetypeNames => UndefinedKeys(p.archetype) = {}
        /\ \A row \in Rows(r.table) : row.category \in KeySet(SPENDING_CATEGORIES)

(* C12: if any row of the profile table names an archetype absent from the *)
(* archetype catalog, TransactionGenerator.generate raises an error and    *)
(* returns no table, whatever the position of the row; the call never      *)
(* moves past that user.                                                   *)
C12_UnknownArchetypeRaises ==
    /\ \A r \in Returned : \A p \in Rows(r.profiles) : p.archetype \in ArchetypeNames
    /\ pc # "idle" =>
           \A k \in 1..Len(frame.profiles) :
               k < frame.user => frame.profiles[k].archetype \in ArchetypeNames
    /\ \A e \in RaisedCalls :
           e.call = "TransactionGenerator.generate" =>
               /\ e.error = "KeyError"
               /\ \E p \in Rows(e.profiles) : p.archetype \notin ArchetypeNames

\* The call raised on a table whose last row names the unknown archetype,
\* after the user of the first row was generated.
C12_Witness ==
    \E e \in RaisedCalls :
        /\ e.call = "TransactionGenerator.generate"
        /\ Len(e.profiles) = 2
        /\ e.profiles[1].archetype \in ArchetypeNames
        /\ e.profiles[2].archetype \notin ArchetypeNames
        /\ returned = <<>> /\ pc = "idle"

(* C13: if ARCHETYPE_DISTRIBUTION references a name absent from            *)
(* SPENDING_ARCHETYPES, UserProfileGenerator.generate fails for every      *)
(* num_users >= 1 and returns no profile table, whether or not the name is *)
(* drawn for a user.                                                       *)
C13_BrokenDistributionFails ==
    (\E name \in KeySet(config.ARCHETYPE_DISTRIBUTION) : name \notin ArchetypeNames)
        => profileTables = <<>>

(* C14: TransactionGenerator.generate called with a profile table of zero  *)
(* rows returns a table of zero rows and raises no error.                  *)
C14_EmptyProfilesEmptyTable ==
    /\ \A r \in Returned : r.profiles = <<>> => r.table = <<>>
    /\ \A e \in RaisedCalls :
           e.call = "TransactionGenerator.generate" => e.profiles # <<>>

\* A call on the empty table has returned.
C14_Witness == \E r \in Returned : r.profiles = <<>> /\ r.table = <<>>

(* C15: the table returned by TransactionGenerator.generate is ordered by  *)
(* date ascending: date(r) <= date(r+1) for every pair of consecutive      *)
(* rows, for any number of users and months.                               *)
C15_SortedByDate ==
    \A r \in Returned : \A i \in 1..(Len(r.table) - 1) :
        DateLE(r.table[i].date, r.table[i + 1].date)

\* A returned table over two months in which a row of the second user
\* precedes a row of the first user: the rows were generated in another
\* order than they are returned in.
C15_Witness ==
    \E r \in Returned : \E i, j \in 1..Len(r.table) :
        /\ i < j
        /\ r.table[i].user_id = <<"user_", "0", "0", "0", "2">>
        /\ r.table[j].user_id = <<"user_", "0", "0", "0", "1">>
        /\ Cardinality(YearMonths(r.table)) >= 2

(* C16: every returned transaction has the user_id of a row of the input   *)
(* profile table, a category that is a key of SPENDING_CATEGORIES, a       *)
(* merchant of that category's merchant list and an mcc_code of that       *)
(* category's mcc_codes list.                                              *)
C16_RowsFromCatalog ==
    \A r \in Returned : \A row \in Rows(r.table) :
        /\ \E p \in Rows(r.profiles) : p.user_id = row.user_id
        /\ \E c \in 1..Len(SPENDING_CATEGORIES) :
               /\ SPENDING_CATEGORIES[c][1] = row.category
               /\ \E m \in 1..Len(SPENDING_CATEGORIES[c][2].merchants) :
                      SPENDING_CATEGORIES[c][2].merchants[m] = row.merchant
               /\ \E m \in 1..Len(SPENDING_CATEGORIES[c][2].mcc_codes) :
                      SPENDING_CATEGORIES[c][2].mcc_codes[m] = row.mcc_code

\* A returned table with rows of three categories, and two merchants and
\* two codes within one category.
C16_Witness ==
    \E r \in Returned :
        /\ Cardinality({row.category : row \in Rows(r.table)}) >= 3
        /\ \E a, b \in Rows(r.table) :
               /\ a.category = b.category
               /\ a.merchant # b.merchant
               /\ a.mcc_code # b.mcc_code

\* The number of cards of the rows of a profile table.
RECURSIVE CardCount(_)
CardCount(profiles) ==
    IF profiles = <<>> THEN 0
    ELSE Len(profiles[1].cards) + CardCount(Tail(profiles))

\* The finished calls of generate_user_cards_mapping.
Mappings == {mappings[i] : i \in 1..Len(mappings)}

(* C17: generate_user_cards_mapping(profiles) returns exactly one row      *)
(* (user_id, card_id, redemption_preference) for each pair (profile row,   *)
(* card of its list), in profile order; its row count is the sum of the    *)
(* card-list lengths and its user_ids are those of the profiles.           *)
C17_OneRowPerCard ==
    \A m \in Mappings :
        /\ Len(m.table) = CardCount(m.profiles)
        /\ {row.user_id : row \in Rows(m.table)}
               = {p.user_id : p \in Rows(m.profiles)}
        /\ \A i \in 1..Len(m.profiles) : \A c \in 1..Len(m.profiles[i].cards) :
               LET k == CardCount(SubSeq(m.profiles, 1, i - 1)) + c
               IN /\ k <= Len(m.table)
                  /\ m.table[k].user_id = m.profiles[i].user_id
                  /\ m.table[k].card_id = m.profiles[i].cards[c]
                  /\ m.table[k].redemption_preference
                         = m.profiles[i].redemption_preference

\* A mapping of two profiles with card lists of different lengths, and a
\* mapping made without a table (profiles_df = None).
C17_Witness ==
    /\ \E m \in Mappings :
           /\ Len(m.profiles) >= 2
           /\ \E a, b \in Rows(m.profiles) : Len(a.cards) # Len(b.cards)
    /\ \E m \in Mappings : \A t \in ProfileCalls : t.table # m.profiles

\* The draws of uniform(low, high), in thousandths, within two cents of an
\* end of the range [low, high).
EdgeDraws(archetype) ==
    LET low == 10 * archetype.monthly_budget_range[1]
        high == 10 * archetype.monthly_budget_range[2]
    IN (low..(low + 20)) \cup ((high - 20)..(high - 1))

(* C18: every profile returned by UserProfileGenerator.generate has        *)
(* low <= monthly_budget <= high for the budget range of its archetype,    *)
(* also after the budget is rounded to 2 decimals (for the draws at the    *)
(* ends of the range as well), and its archetype is a name of              *)
(* SPENDING_ARCHETYPES.                                                    *)
C18_BudgetInRange ==
    /\ \A e \in ProfileCalls : \A row \in Rows(e.table) :
           \E a \in 1..Len(SPENDING_ARCHETYPES) :
               /\ SPENDING_ARCHETYPES[a].name = row.archetype
               /\ SPENDING_ARCHETYPES[a].monthly_budget_range[1] <= row.monthly_budget
               /\ row.monthly_budget <= SPENDING_ARCHETYPES[a].monthly_budget_range[2]
    /\ \A a \in 1..Len(SPENDING_ARCHETYPES) : \A u \in EdgeDraws(SPENDING_ARCHETYPES[a]) :
           /\ SPENDING_ARCHETYPES[a].monthly_budget_range[1] <= Round2(u) \div 10
           /\ Round2(u) \div 10 <= SPENDING_ARCHETYPES[a].monthly_budget_range[2]

\* A returned profile table with a budget of each archetype's range, one of
\* them not a whole number of dollars.
C18_Witness ==
    \E e \in ProfileCalls :
        /\ \E row \in Rows(e.table) : row.monthly_budget <= 80000
        /\ \E row \in Rows(e.table) : row.monthly_budget >= 150000
        /\ \E row \in Rows(e.table) : row.monthly_budget % 100 # 0

\* Some selected source runner raised during the run.
SomeSourceFailed == \E i \in 1..Len(dl.results) : ~dl.results[i].ok

\* C19: once a selected source runner has raised, the commit is never
\* called and <out-dir>/current holds exactly the files it held before the
\* run (no file overwritten, no manifest written); when main returns, its
\* exit code is 2 under --fail-fast and 1 otherwise.
C19_FailureKeepsCurrent ==
    SomeSourceFailed =>
        /\ ~dl.committed
        /\ disk.current = dl.before
        /\ dl.pc = "done" => dl.exit = (IF dl.fail_fast THEN 2 ELSE 1)

\* main returned 1 after a source wrote its files and a later one raised,
\* over an existing current set.
C19_Witness ==
    /\ dl.pc = "done"
    /\ dl.exit = 1
    /\ dl.before = Dir(OldCurrent)
    /\ Len(dl.results) >= 2
    /\ dl.results[1].ok
    /\ ~dl.results[Len(dl.results)].ok
    /\ \E i \in 1..Len(dl.results) - 1 : ~dl.results[i].ok

\* C20: at every step of the commit, crashes included, <processed>/current
\* exists and holds the complete previous set or the complete staged set.
C20_CommitAtomic ==
    (dl.committing /\ dl.before # Absent) =>
        /\ disk.current # Absent
        /\ disk.current \in {dl.before, disk.stage}

\* C21: clean_credit_card_data and clean_transaction_data are idempotent:
\* applied to its own output, either returns the same table and removes no
\* further row.
C21_CleaningIdempotent ==
    \A i \in 2..Len(clean.outputs) :
        /\ clean.outputs[i].df = clean.outputs[i - 1].df
        /\ clean.outputs[i].report.final_count
               = clean.outputs[i].report.initial_count

\* The calls on the scraper that returned None after a request exception.
FailedCalls ==
    SelectSeq(scraper.calls,
              LAMBDA c : c.returned = "None" /\ c.outcome = "RequestException")

\* C22: after any sequence of fetch_page and fetch_page_with_headers calls,
\* requests_made is the number of calls and requests_failed the number of
\* calls that returned None because of a request exception, so
\* requests_failed <= requests_made; a call that returns a page therefore
\* leaves requests_failed as it was.
C22_StatsCountCalls ==
    /\ scraper.stats.requests_made = Len(scraper.calls)
    /\ scraper.stats.requests_failed = Len(FailedCalls)
    /\ scraper.stats.requests_failed <= scraper.stats.requests_made

\* Both methods were called, one call failed and a later one succeeded.
C22_Witness ==
    /\ Len(scraper.calls) = MaxFetches
    /\ \E i, j \in 1..Len(scraper.calls) :
          /\ i < j
          /\ scraper.calls[i].method # scraper.calls[j].method
          /\ scraper.calls[i].returned = "None"
          /\ scraper.calls[j].returned = "BeautifulSoup"
    /\ scraper.stats.requests_failed >= 1

\* Months since year 0 of the month a date lies in.
MonthIndex(dt) == dt[1] * 12 + (dt[2] - 1)

\* C23: the month loop starts with the month of start_date and goes on to
\* the next calendar month each time (January of the next year after
\* December); in each visited month days_in_month is the true length of the
\* month, and every transaction emitted in the iteration is a valid date of
\* that month.
C23_MonthLoop ==
    /\ [](pc \in {"categories", "split"} =>
            /\ <<frame.year, frame.month>> = <<frame.current[1], frame.current[2]>>
            /\ frame.days_in_month = MonthLength(frame.year, frame.month)
            /\ frame.days_in_month \in 28..31
            /\ \A i \in 1..Len(frame.cat_txns) :
                  /\ frame.cat_txns[i].date[1] = frame.year
                  /\ frame.cat_txns[i].date[2] = frame.month
                  /\ frame.cat_txns[i].date[3]
                         \in 1..MonthLength(frame.year, frame.month))
    /\ [][/\ (pc = "users" /\ pc' = "months") =>
                 MonthIndex(frame'.current)
                     = MonthIndex(tgens[frame'.gen].start_date)
          /\ (pc = "categories" /\ pc' = "months") =>
                 MonthIndex(frame'.current) = MonthIndex(frame.current) + 1]_vars

\* A transaction was emitted in the February of a leap year, in a window
\* that began in an earlier year.
C23_Witness ==
    /\ pc = "split"
    /\ frame.month = 2
    /\ IsLeap(frame.year)
    /\ frame.days_in_month = 29
    /\ frame.cat_txns # <<>>
    /\ tgens[frame.gen].start_date[1] < frame.year

\* The category budget _split_into_transactions is about to be given: the
\* monthly_amount of the category the loop of TG_Categories stands at.
PendingAmount ==
    LET weights == CategoryWeights(frame.archetype)
    IN CatBudget(frame.monthly_budget, weights[frame.cat][2],
                 Seasonal(weights[frame.cat][1], frame.month),
                 Noise(Raw(tgens[frame.gen].rng)))

\* _split_into_transactions is called in the step that follows.
SplitCalled ==
    /\ pc = "categories"
    /\ frame.cat <= Len(CategoryWeights(frame.archetype))
    /\ ~SkipsCategory(CategoryWeights(frame.archetype)[frame.cat][2])

\* C24: _split_into_transactions returns no transaction exactly when
\* monthly_amount < MIN_TRANSACTION_AMOUNT; otherwise it returns between 1
\* and est_num transactions (the drawn count, at least 1), and it emits a
\* transaction only while the remaining budget is at least the minimum.
C24_SplitCount ==
    /\ [](pc = "split" =>
            /\ frame.monthly_amount >= MIN_TRANSACTION_AMOUNT
            /\ frame.est_num >= 1
            /\ Len(frame.cat_txns) = frame.j
            /\ frame.j <= frame.est_num)
    /\ [][/\ SplitCalled =>
                 ((pc' = "split") <=> ~(PendingAmount < MIN_TRANSACTION_AMOUNT))
          /\ (SplitCalled /\ pc' = "categories") =>
                 (frame'.txns = frame.txns /\ frame'.txn_counter = frame.txn_counter)
          /\ (pc = "split" /\ pc' = "split") =>
                 frame.remaining >= MIN_TRANSACTION_AMOUNT
          /\ (pc = "split" /\ pc' = "categories") =>
                 /\ Len(frame.cat_txns) \in 1..frame.est_num
                 /\ (Len(frame.cat_txns) < frame.est_num =>
                        frame.remaining < MIN_TRANSACTION_AMOUNT)
                 /\ frame'.txns = frame.txns \o frame.cat_txns]_vars

\* A user of negative budget got no transaction at all, and the next user
\* is in a split that is about to stop before the drawn count is reached,
\* because what remains of the budget is below the minimum.
C24_Witness ==
    /\ pc = "split"
    /\ frame.user = 2
    /\ frame.profiles[1].monthly_budget < 0
    /\ frame.all_txns = <<>>
    /\ frame.j >= 1
    /\ frame.j < frame.est_num
    /\ frame.remaining < MIN_TRANSACTION_AMOUNT

SelectedSources == {x \in {"api", "issuers", "nerdwallet"} : InList(x, dl.sources)}

C28_NoSourceKeepsCurrent ==
    (SelectedSources = {} /\ dl.before # Absent /\ dl.pc = "done") =>
        /\ disk.current # Absent
        /\ dl.before.files \subseteq disk.current.files

\* C30 as stated: however main ends, by a return or by an exception of the
\* commit or of a manifest write, the staging directory no longer exists.
C30_StageRemovedAlways ==
    dl.pc \in {"done", "raised"} => disk.stage = Absent

\* C30, amended: when main returns (0, 1 or 2) the staging directory no
\* longer exists; when the commit or a manifest write raises, the exception
\* leaves main and the staging directory is still there.
C30_StageRemovedOnReturn ==
    /\ dl.pc = "done" => (dl.exit \in {0, 1, 2} /\ disk.stage = Absent)
    /\ dl.pc = "raised" => disk.stage # Absent

\* main returned 0 after a commit over an existing current set, with staged
\* files, and the stage is gone.
C30_Witness ==
    /\ dl.pc = "done"
    /\ dl.exit = 0
    /\ dl.committed
    /\ dl.before # Absent
    /\ Len(dl.results) >= 2
    /\ disk.stage = Absent

\* C27: TransactionGenerator.generate and generate_user_cards_mapping leave
\* the profile table they are given as it was (same rows, same card lists),
\* and no generator operation changes the configuration catalog.
C27_InputsUnchanged ==
    /\ [](/\ config = ShippedConfig
          /\ \A i \in 1..Len(returned) :
                \E t \in 1..Len(profileTables) :
                    returned[i].profiles = profileTables[t].table
          /\ \A i \in 1..Len(mappings) :
                \E t \in 1..Len(profileTables) :
                    mappings[i].profiles = profileTables[t].table)
    /\ [][/\ config' = config
          /\ \A t \in 1..Len(profileTables) :
                /\ t <= Len(profileTables')
                /\ profileTables'[t] = profileTables[t]
          /\ (pc # "idle" /\ pc' # "idle") => frame'.profiles = frame.profiles]_vars

\* Transactions and the cards mapping were both produced from a table of
\* two users, which still holds their cards.
C27_Witness ==
    /\ Len(returned) = 1
    /\ Len(mappings) = 1
    /\ returned[1].table # <<>>
    /\ mappings[1].table # <<>>
    /\ Len(profileTables[1].table) = 2
    /\ \A i \in 1..2 : profileTables[1].table[i].cards # <<>>

\* The rows of a transactions table that belong to one user, in the order
\* of the table.
RowsOf(table, user_id) == SelectSeq(table, LAMBDA row : row.user_id = user_id)

\* A row without its transaction id.
Content(row) ==
    [date |-> row.date, category |-> row.category, merchant |-> row.merchant,
     mcc_code |-> row.mcc_code, amount |-> row.amount, card_used |-> row.card_used]

ContentsOf(table, user_id) ==
    LET rows == RowsOf(table, user_id)
    IN [i \in 1..Len(rows) |-> Content(rows[i])]

\* C29 as stated: with the same seed and window, the rows of a user (the
\* transaction id aside) are the same whether the table holds the user
\* alone or also another user placed before it.
C29_RowsWhateverComesBefore ==
    (/\ Len(returned) = 2
     /\ Len(returned[2].profiles) = 2
     /\ returned[2].profiles[2] = returned[1].profiles[1]) =>
        ContentsOf(returned[2].table, returned[1].profiles[1].user_id)
            = ContentsOf(returned[1].table, returned[1].profiles[1].user_id)

\* C29, amended: with the same seed and window, the rows of the first user
\* of the table (transaction ids included) are the same whether the table
\* holds that user alone or also another user placed after it.
C29_RowsWhateverComesAfter ==
    (/\ Len(returned) = 2
     /\ Len(returned[2].profiles) = 2
     /\ returned[2].profiles[1] = returned[1].profiles[1]) =>
        RowsOf(returned[2].table, returned[1].profiles[1].user_id)
            = RowsOf(returned[1].table, returned[1].profiles[1].user_id)

\* Both tables were returned, the second for the user followed by another
\* one, and both users got transactions.
C29_Witness ==
    /\ Len(returned) = 2
    /\ Len(returned[2].profiles) = 2
    /\ returned[2].profiles[1] = returned[1].profiles[1]
    /\ returned[1].table # <<>>
    /\ RowsOf(returned[2].table, returned[2].profiles[2].user_id) # <<>>

=============================================================================
